---- MODULE Spec2Model ----
(***************************************************************************)
(* Benchmark evaluation core of Loues000/Zemni (benchmark/*.py):           *)
(*   - judge consensus evaluation and its content-addressed cache          *)
(*     (evaluators/llm_judge.py),                                          *)
(*   - the benchmark run: bounded dispatch, collection, corpus merge and   *)
(*     persistence, metrics (run_benchmark.py, evaluators/metrics.py).     *)
(*                                                                         *)
(* Texts are sequences of one-character strings.  Floats that the code     *)
(* computes by division are kept exact as pairs <<numerator, denominator>>.*)
(* Files are modelled at the granularity of the system calls that other    *)
(* processes can observe (open-with-truncate, write, rename).              *)
(***************************************************************************)
EXTENDS Integers, Sequences, FiniteSets, TLC

\* ------------------------------------------------------------------------
\* Bounds of the model
\* ------------------------------------------------------------------------
\* Number of configured judge models (config["judge_models"]).
NumJudges == 2

\* ------------------------------------------------------------------------
\* Python values
\* ------------------------------------------------------------------------
None == "None"

\* Truth value of an Optional[str] (`if result.get("error")`).
Truthy(s) == s # None /\ s # ""

\* dict.get(key, default)
Get(d, k, default) == IF k \in DOMAIN d THEN d[k] ELSE default

Max2(a, b) == IF a >= b THEN a ELSE b
Min2(a, b) == IF a <= b THEN a ELSE b

\* sum(s), adding the two halves of a long list
RECURSIVE SumSeq(_)
SumSeq(s) ==
    IF s = <<>> THEN 0
    ELSE IF Len(s) = 1 THEN s[1]
    ELSE SumSeq(SubSeq(s, 1, Len(s) \div 2)) + SumSeq(SubSeq(s, Len(s) \div 2 + 1, Len(s)))

\* sum(x * x for x in s)
SumSqSeq(s) == SumSeq([i \in DOMAIN s |-> s[i] * s[i]])

RECURSIVE MaxSeq(_)
MaxSeq(s) == IF Len(s) = 1 THEN s[1] ELSE Max2(Head(s), MaxSeq(Tail(s)))

RECURSIVE MinSeq(_)
MinSeq(s) == IF Len(s) = 1 THEN s[1] ELSE Min2(Head(s), MinSeq(Tail(s)))

\* sorted(values)
Sorted(s) == SortSeq(s, LAMBDA a, b : a < b)

\* The elements of a list.
Range(s) == {s[i] : i \in DOMAIN s}

\* The sequences over S of length at most n
SeqsUpTo(S, n) == UNION {[1..k -> S] : k \in 0..n}

\* ------------------------------------------------------------------------
\* Texts
\* ------------------------------------------------------------------------
IsSpace(c) == c = " "

\* str.strip() == "" : the text is empty or whitespace only
IsBlank(t) == \A i \in DOMAIN t : IsSpace(t[i])

\* re.sub(r'\s+', ' ', text): whitespace runs collapse to one space.
RECURSIVE CollapseSpaces(_)
CollapseSpaces(t) ==
    IF Len(t) <= 1 THEN t
    ELSE IF IsSpace(t[1]) /\ IsSpace(t[2]) THEN CollapseSpaces(Tail(t))
         ELSE <<t[1]>> \o CollapseSpaces(Tail(t))

\* str.strip()
RECURSIVE StripLeft(_)
StripLeft(t) == IF t # <<>> /\ IsSpace(Head(t)) THEN StripLeft(Tail(t)) ELSE t

RECURSIVE StripRight(_)
StripRight(t) ==
    IF t # <<>> /\ IsSpace(t[Len(t)]) THEN StripRight(SubSeq(t, 1, Len(t) - 1)) ELSE t

Strip(t) == StripRight(StripLeft(t))

\* llm_judge.normalize_text_for_cache
NormalizeTextForCache(text) == Strip(CollapseSpaces(text))

\* Length above which get_output_hash embeds a digest instead of the text.
HashThreshold == 10000

\* hashlib.sha256(...).hexdigest(), taken as injective: the digest of a text
\* is the text itself under a tag that no text carries.
Sha256(t) == <<"sha256">> \o t

\* llm_judge.get_output_hash
GetOutputHash(output_text, task_type, source_text) ==
    LET o1 == NormalizeTextForCache(output_text)
        s1 == NormalizeTextForCache(source_text)
        o2 == IF Len(o1) > HashThreshold THEN Sha256(o1) ELSE o1
        s2 == IF Len(s1) > HashThreshold THEN Sha256(s1) ELSE s1
        content == task_type \o <<":">> \o o2 \o <<":">> \o s2
    IN Sha256(content)

\* ------------------------------------------------------------------------
\* Judges
\* ------------------------------------------------------------------------
JudgeNames == <<"j1", "j2", "j3", "j4">>

\* config["judge_models"]
JudgeModels == [i \in 1..NumJudges |-> JudgeNames[i]]

\* client._calculate_cost for a judge call that produced usage: a price per
\* judge model (models_dict pricing times the tokens used).
JudgeCost(model_id) ==
    CASE model_id = "j1" -> 1
      [] model_id = "j2" -> 2
      [] model_id = "j3" -> 4
      [] OTHER -> 8

\* JSON values a judge may put under a dimension key.
JsonNum(n) == [t |-> "num", v |-> n]
JsonStr == [t |-> "str", v |-> 0]
IsNumber(x) == x.t = "num"

\* Numbers judges answer with: below, inside and above the 1..100 scale.
RawScores == {0, 50, 150}

ScoreKeys == {"quality", "completeness"}

\* The JSON objects a judge may answer with: any subset of the dimension
\* keys, each with a number or a non-numeric value, plus "reasoning".
JudgeObjects ==
    UNION { { f @@ [k \in {"reasoning"} |-> JsonStr] :
              f \in [D -> {JsonNum(n) : n \in RawScores} \cup {JsonStr}] } :
            D \in SUBSET ScoreKeys }

\* What the text of a judge response is, as judge_with_model tells it apart.
TextEmpty == [kind |-> "empty", obj |-> <<>>]
TextNotJson == [kind |-> "not_json", obj |-> <<>>]
TextJsonScalar == [kind |-> "json_scalar", obj |-> <<>>]
TextJsonObject(o) == [kind |-> "json_object", obj |-> o]

JudgeTexts ==
    {TextEmpty, TextNotJson, TextJsonScalar} \cup {TextJsonObject(o) : o \in JudgeObjects}

\* Error messages ModelClient.generate may end with: last_error is
\* "HTTP <status>: ..." or str(e), and str(e) of an exception may be "".
ErrorMessages == {"HTTP 500", ""}

\* Results of client.generate for a judge call (client.py 183-194, 211-217):
\* `billed` is what _calculate_cost gives for the usage of a call that
\* returned; generate itself is called without pricing, so its cost is 0.
GenerateResults(model_id) ==
    { [text |-> t, cost |-> 0, billed |-> JudgeCost(model_id), error |-> None] :
        t \in JudgeTexts }
    \cup
    { [text |-> TextEmpty, cost |-> 0, billed |-> 0, error |-> m] : m \in ErrorMessages }

\* A reduced set of the same results for the cache model.
GenerateResultsSmall(model_id) ==
    { [text |-> TextJsonObject([quality |-> JsonNum(n), reasoning |-> JsonStr]),
       cost |-> 0, billed |-> JudgeCost(model_id), error |-> None] : n \in {50, 150} }

\* A clamp to the upper end of the scale only.
ClampToHundred(x) == Min2(100, x)

\* scores[key] = max(1.0, min(100.0, float(scores[key])))
Clamp(x) == Max2(1, Min2(100, x))

ClampScores(obj) ==
    [k \in DOMAIN obj |->
        IF k # "reasoning" /\ IsNumber(obj[k]) THEN JsonNum(Clamp(obj[k].v)) ELSE obj[k]]

\* What asyncio.gather(..., return_exceptions=True) holds for a task that raised.
RaisedException(model_id) ==
    [exception |-> TRUE, model_id |-> model_id, error |-> "exception", scores |-> <<>>, cost |-> 0]

Judgment(model_id, error, scores, cost) ==
    [exception |-> FALSE, model_id |-> model_id, error |-> error, scores |-> scores, cost |-> cost]

\* llm_judge.judge_with_model, from the result of client.generate on.
JudgeWithModel(model_id, result) ==
    LET cost == IF ~Truthy(result.error) THEN result.billed ELSE result.cost
    IN IF Truthy(result.error)
         THEN Judgment(model_id, result.error, <<>>, 0)
       ELSE IF result.text.kind = "empty"
         THEN Judgment(model_id, "Empty response from judge model", <<>>, cost)
       ELSE IF result.text.kind = "not_json"
         THEN Judgment(model_id, "Failed to parse JSON", <<>>, cost)
       ELSE IF result.text.kind = "json_scalar"
         \* json.loads succeeds, scores.items() raises AttributeError
         THEN RaisedException(model_id)
       ELSE Judgment(model_id, None, ClampScores(result.text.obj), cost)

\* The generation cost a judge call incurred, whatever became of its answer.
IncurredCost(result) == IF ~Truthy(result.error) THEN result.billed ELSE result.cost

\* ------------------------------------------------------------------------
\* Consensus over the judgments (llm_judge._evaluate_consensus_internal)
\* ------------------------------------------------------------------------
\* A filter that lets judgments with an error payload through.
IsValidJudgmentIgnoringError(j) == ~j.exception

IsValidJudgment(j) == ~j.exception /\ ~Truthy(j.error)

\* valid_judgments, in the order of the gathered judgments
RECURSIVE ValidJudgments(_)
ValidJudgments(js) ==
    IF js = <<>> THEN <<>>
    ELSE IF IsValidJudgment(Head(js)) THEN <<Head(js)>> \o ValidJudgments(Tail(js))
         ELSE ValidJudgments(Tail(js))

\* total_judge_cost: an exception is skipped, an error payload and a valid
\* judgment add their cost.
RECURSIVE TotalJudgeCost(_)
TotalJudgeCost(js) ==
    IF js = <<>> THEN 0
    ELSE (IF Head(js).exception THEN 0 ELSE Head(js).cost) + TotalJudgeCost(Tail(js))

\* values = [float(score) for j in valid_judgments if key reported as a number]
RECURSIVE ValuesFor(_, _)
ValuesFor(valid, key) ==
    IF valid = <<>> THEN <<>>
    ELSE LET sc == Head(valid).scores
         IN (IF key \in DOMAIN sc /\ IsNumber(sc[key]) THEN <<sc[key].v>> ELSE <<>>)
            \o ValuesFor(Tail(valid), key)

AllScoreKeys(valid) == UNION {DOMAIN valid[i].scores : i \in DOMAIN valid}

\* sum((x - mean)**2 for x in values) / len(values), exact
Variance(values) ==
    LET n == Len(values)
    IN <<n * SumSqSeq(values) - SumSeq(values) * SumSeq(values), n * n>>

\* aggregated[key]; std_dev is kept squared (std_dev_sq) to stay exact.
DimensionStats(values) ==
    [mean |-> <<SumSeq(values), Len(values)>>,
     median |-> Sorted(values)[(Len(values) \div 2) + 1],
     min |-> MinSeq(values),
     max |-> MaxSeq(values),
     std_dev_sq |-> IF Len(values) > 1 THEN Variance(values) ELSE <<0, 1>>,
     count |-> Len(values)]

AggregatedScores(valid) ==
    LET keys == {k \in AllScoreKeys(valid) \ {"reasoning"} : ValuesFor(valid, k) # <<>>}
    IN [k \in keys |-> DimensionStats(ValuesFor(valid, k))]

\* consensus_metrics: per key the variance (agreement is 1/(1+variance)).
ConsensusMetrics(valid) ==
    LET keys == IF Len(valid) > 1
                  THEN {k \in AllScoreKeys(valid) \ {"reasoning"} : Len(ValuesFor(valid, k)) > 1}
                  ELSE {}
    IN [k \in keys |-> Variance(ValuesFor(valid, k))]

\* An unavailability result that reuses the message of the failure result.
NoJudgesAvailableAsFailed ==
    [error |-> "All judge models failed", scores |-> <<>>, judgments |-> <<>>,
     total_judge_cost |-> 0]

NoJudgesAvailableResult ==
    [error |-> "No judge models available", scores |-> <<>>, judgments |-> <<>>,
     total_judge_cost |-> 0]

AllJudgesFailedResult(total) ==
    [error |-> "All judge models failed", scores |-> <<>>, judgments |-> <<>>,
     total_judge_cost |-> total]

\* The part of _evaluate_consensus_internal after asyncio.gather.
ConsensusResult(available_models, judgments) ==
    LET valid == ValidJudgments(judgments)
        total == TotalJudgeCost(judgments)
    IN IF valid = <<>> THEN AllJudgesFailedResult(total)
       ELSE [aggregated_scores |-> AggregatedScores(valid),
             individual_judgments |-> valid,
             consensus_metrics |-> ConsensusMetrics(valid),
             judge_count |-> Len(valid),
             available_models |-> available_models,
             total_judge_cost |-> total]

MinimumStats == [mean |-> <<1, 1>>, median |-> 1, min |-> 1, max |-> 1,
                 std_dev_sq |-> <<0, 1>>, count |-> 0]

\* evaluate_with_consensus on an empty output
EmptyOutputResult ==
    [error |-> "Empty output",
     aggregated_scores |-> [k \in {"factual_accuracy", "completeness", "quality"} |-> MinimumStats],
     individual_judgments |-> <<>>,
     consensus_metrics |-> <<>>,
     judge_count |-> 0,
     available_models |-> <<>>,
     total_judge_cost |-> 0]

NoResult == [none |-> TRUE]

\* ------------------------------------------------------------------------
\* State
\* ------------------------------------------------------------------------
VARIABLES
    \* evaluate_with_consensus calls (one per slot of Evals)
    epc,          \* where each call is
    eargs,        \* its arguments, and the model_id of the caller's BenchmarkResult
    ehash,        \* hash_key
    eavail,       \* available_models
    egen,         \* what client.generate returned for each available judge
    eresult,      \* the value the call returns
    judgeCache,   \* JUDGE_CACHE_DIR: hash_key -> file
    \* history of the judge cache, kept for the properties
    stored,       \* hash_key -> the content first stored under it
    ehad,         \* the entry of the call's key had been stored when the call began
    ehit,         \* the call returned from the cache
    partialRead   \* some load read a file that its writer had not finished

evalVars == <<epc, eargs, ehash, eavail, egen, eresult, judgeCache, stored, ehad, ehit,
              partialRead>>

\* A benchmark run (run_benchmark.run_benchmark)
VARIABLES
    use_cache,         \* `use_cache and not force`, as every task receives it
    resultCache,       \* CACHE_DIR: cache_key -> BenchmarkResult
    semaphore,         \* the value of asyncio.Semaphore(concurrency)
    tpc,               \* where each run_single_benchmark task is
    toutput,           \* what client.generate returned to the task
    tresult,           \* what the task returned
    doneQueue,         \* asyncio.as_completed: finished tasks not yet yielded
    results,           \* the results list of run_benchmark
    rpc,               \* where run_benchmark is
    corpus,            \* results/benchmark_results.json
    tempFile,          \* results/benchmark_results.json.tmp
    existing_results,
    merged_results,
    metrics,           \* results/benchmark_metrics.json
    \* history of the run, kept for the properties
    finishOrder,       \* the tasks in the order they finished
    collected,         \* the tasks in the order their results were appended
    failed,            \* the tasks whose generation ended in a terminal error
    \* the save of the run, and what shares its files
    load_attempt,      \* the loop variable of the retry loop around json.load
    otherRun,          \* a second run_benchmark process saving to the same files
    \* history across runs, kept for the properties
    forced,            \* the --force flag of each run started so far
    last_generated     \* cache_key -> the result of its latest successful generation

runVars == <<use_cache, resultCache, semaphore, tpc, toutput, tresult, doneQueue, results,
             rpc, corpus, tempFile, existing_results, merged_results, metrics,
             finishOrder, collected, failed, load_attempt, otherRun, forced,
             last_generated>>

\* One call of ModelClient.generate (models/client.py), and one application of
\* an evaluator or of a statistic to its arguments
VARIABLES
    gpc,          \* where the call of generate is
    attempt,      \* the loop variable of generate's retry loop
    last_error,
    responses,    \* history: what the API answered to each request of the call
    greturn,      \* the value generate returned
    fargs,        \* the arguments a function is applied to
    fret          \* the value it returned

callVars == <<gpc, attempt, last_error, responses, greturn, fargs, fret>>

\* The benchmark processes that share JUDGE_CACHE_DIR, each with one call of
\* evaluate_with_consensus in progress at a time; they interleave at every
\* system call.
Evals == {"p1", "p2"}

\* Models under benchmark: one that is not a judge, one that is.
BenchModels == {"m1", "j1"}

BlankText == <<" ">>
OutputTexts == {BlankText, <<"a">>}
SourceText == <<"s">>
SummaryTask == <<"summary">>

\* run_single_benchmark 287: judge_models_for_this
JudgeModelsFor(model_id) == SelectSeq(JudgeModels, LAMBDA j : j # model_id)

\* The arguments run_single_benchmark 284-298 passes for a model's output.
EvalArgs(cache_on) ==
    { [model_id |-> m, judge_models |-> JudgeModelsFor(m), task_type |-> SummaryTask,
       source_text |-> SourceText, output_text |-> o, use_cache |-> cache_on] :
      m \in BenchModels, o \in OutputTexts }

NoArgs == [none |-> TRUE]
EmptyDict == [k \in {} |-> 0]

\* A file being written by Path.write_text: created or truncated by open(),
\* complete once the data is written.
PartialFile == [complete |-> FALSE, json |-> NoResult]
CompleteFile(r) == [complete |-> TRUE, json |-> r]

\* llm_judge.load_cached_judgment: None when the file is missing or does not
\* parse (json.loads raises on a file its writer has not finished).
LoadCachedJudgment(cache, hash_key) ==
    IF hash_key \in DOMAIN cache /\ cache[hash_key].complete
      THEN cache[hash_key].json
      ELSE NoResult

ReadsPartial(cache, hash_key) == hash_key \in DOMAIN cache /\ ~cache[hash_key].complete

EvalInit(active) ==
    /\ epc = [e \in Evals |-> IF e \in active THEN "idle" ELSE "off"]
    /\ eargs = [e \in Evals |-> NoArgs]
    /\ ehash = [e \in Evals |-> <<>>]
    /\ eavail = [e \in Evals |-> <<>>]
    /\ egen = [e \in Evals |-> EmptyDict]
    /\ eresult = [e \in Evals |-> NoResult]
    /\ judgeCache = EmptyDict
    /\ stored = EmptyDict
    /\ ehad = [e \in Evals |-> FALSE]
    /\ ehit = [e \in Evals |-> FALSE]
    /\ partialRead = FALSE

\* evaluate_with_consensus 316-333: the empty-output short circuit, else the key.
EvaluateWithConsensus(e, argset) ==
    /\ epc[e] = "idle"
    /\ \E a \in argset :
         LET h == GetOutputHash(a.output_text, a.task_type, a.source_text)
         IN /\ eargs' = [eargs EXCEPT ![e] = a]
            /\ IF a.output_text = <<>> \/ IsBlank(a.output_text)
                 THEN /\ eresult' = [eresult EXCEPT ![e] = EmptyOutputResult]
                      /\ epc' = [epc EXCEPT ![e] = "done"]
                      /\ UNCHANGED <<ehash, ehad>>
                 ELSE /\ ehash' = [ehash EXCEPT ![e] = h]
                      /\ ehad' = [ehad EXCEPT ![e] = h \in DOMAIN stored]
                      /\ epc' = [epc EXCEPT ![e] = "check"]
                      /\ UNCHANGED eresult
    /\ UNCHANGED <<eavail, egen, judgeCache, stored, ehit, partialRead>>
    /\ UNCHANGED <<runVars, callVars>>

\* evaluate_with_consensus 334-337: the cache lookup
CacheLookup(e) ==
    /\ epc[e] = "check"
    /\ LET cached == IF eargs[e].use_cache THEN LoadCachedJudgment(judgeCache, ehash[e])
                     ELSE NoResult
       IN /\ partialRead' = (partialRead \/ (eargs[e].use_cache /\ ReadsPartial(judgeCache, ehash[e])))
          /\ IF cached # NoResult
               THEN /\ eresult' = [eresult EXCEPT ![e] = cached]
                    /\ ehit' = [ehit EXCEPT ![e] = TRUE]
                    /\ epc' = [epc EXCEPT ![e] = "done"]
               ELSE /\ epc' = [epc EXCEPT ![e] = "avail"]
                    /\ UNCHANGED <<eresult, ehit>>
    /\ UNCHANGED <<eargs, ehash, eavail, egen, judgeCache, stored, ehad>>
    /\ UNCHANGED <<runVars, callVars>>

\* The sets of judges check_models_availability can report as available:
\* any subset, or (outages = "total") all of them or none.
Availabilities(judge_models, outages) ==
    IF outages = "any" THEN SUBSET Range(judge_models)
    ELSE {Range(judge_models), {}}

\* _evaluate_consensus_internal 364-374: client.check_models_availability
CheckModelsAvailability(e, outages) ==
    /\ epc[e] = "avail"
    /\ \E up \in Availabilities(eargs[e].judge_models, outages) :
         LET available_models == SelectSeq(eargs[e].judge_models, LAMBDA j : j \in up)
         IN /\ eavail' = [eavail EXCEPT ![e] = available_models]
            /\ IF available_models = <<>>
                 THEN /\ eresult' = [eresult EXCEPT ![e] = NoJudgesAvailableResult]
                      /\ epc' = [epc EXCEPT ![e] = "done"]
                 ELSE /\ epc' = [epc EXCEPT ![e] = "judging"]
                      /\ UNCHANGED eresult
    /\ UNCHANGED <<eargs, ehash, egen, judgeCache, stored, ehad, ehit, partialRead>>
    /\ UNCHANGED <<runVars, callVars>>

\* The judgments asyncio.gather returns, in the order of available_models.
Judgments(available_models, gen) ==
    [i \in DOMAIN available_models |-> JudgeWithModel(available_models[i], gen[available_models[i]])]

\* _evaluate_consensus_internal 376-468 up to the cache write: every judge is
\* queried (judge calls touch no shared state) and the result is built.
GatherJudgments(e, answers) ==
    /\ epc[e] = "judging"
    /\ \E gen \in [Range(eavail[e]) -> UNION {answers[j] : j \in Range(eavail[e])}] :
         /\ \A j \in Range(eavail[e]) : gen[j] \in answers[j]
         /\ LET r == ConsensusResult(eavail[e], Judgments(eavail[e], gen))
            IN /\ egen' = [egen EXCEPT ![e] = gen]
               /\ eresult' = [eresult EXCEPT ![e] = r]
               /\ epc' = [epc EXCEPT ![e] =
                            IF "aggregated_scores" \in DOMAIN r /\ eargs[e].use_cache
                              THEN "save" ELSE "done"]
    /\ UNCHANGED <<eargs, ehash, eavail, judgeCache, stored, ehad, ehit, partialRead>>
    /\ UNCHANGED <<runVars, callVars>>

\* save_cached_judgment, first half: write_text opens the file for writing,
\* which creates or truncates it.
WriteTextOpen(e) ==
    /\ epc[e] = "save"
    /\ judgeCache' = [k \in DOMAIN judgeCache \cup {ehash[e]} |->
                        IF k = ehash[e] THEN PartialFile ELSE judgeCache[k]]
    /\ epc' = [epc EXCEPT ![e] = "saving"]
    /\ UNCHANGED <<eargs, ehash, eavail, egen, eresult, stored, ehad, ehit, partialRead>>
    /\ UNCHANGED <<runVars, callVars>>

\* save_cached_judgment, second half: the data is written and the file closed.
WriteTextData(e) ==
    /\ epc[e] = "saving"
    /\ judgeCache' = [judgeCache EXCEPT ![ehash[e]] = CompleteFile(eresult[e])]
    /\ stored' = [k \in DOMAIN stored \cup {ehash[e]} |->
                    IF k \in DOMAIN stored THEN stored[k] ELSE eresult[e]]
    /\ epc' = [epc EXCEPT ![e] = "done"]
    /\ UNCHANGED <<eargs, ehash, eavail, egen, eresult, ehad, ehit, partialRead>>
    /\ UNCHANGED <<runVars, callVars>>

\* The caller takes the result; the slot is free for the next call.
Return(e) ==
    /\ epc[e] = "done"
    /\ epc' = [epc EXCEPT ![e] = "idle"]
    /\ eargs' = [eargs EXCEPT ![e] = NoArgs]
    /\ ehash' = [ehash EXCEPT ![e] = <<>>]
    /\ eavail' = [eavail EXCEPT ![e] = <<>>]
    /\ egen' = [egen EXCEPT ![e] = EmptyDict]
    /\ eresult' = [eresult EXCEPT ![e] = NoResult]
    /\ ehad' = [ehad EXCEPT ![e] = FALSE]
    /\ ehit' = [ehit EXCEPT ![e] = FALSE]
    /\ UNCHANGED <<judgeCache, stored, partialRead>>
    /\ UNCHANGED <<runVars, callVars>>

\* ------------------------------------------------------------------------
\* A benchmark run (run_benchmark.run_benchmark): inputs and results
\* ------------------------------------------------------------------------
\* Number of available generation models; the run has one task and one test
\* case, so one run_single_benchmark task per model.
NumModels == 2

\* config["concurrency_limit"]
ConcurrencyLimit == 1

RunModelNames == <<"m1", "j1", "m2">>
AvailableModels == [i \in 1..NumModels |-> RunModelNames[i]]
Tasks == 1..NumModels

TestCase == [id |-> <<"test_0001">>, text |-> SourceText]

\* The characters of an identifier, as far as the ":" separator is concerned.
StrTokens(x) == IF x = "m1:free" THEN <<"m1", ":", "free">> ELSE <<x>>

\* run_benchmark.get_cache_key
GetCacheKey(model_id, task, test_case) ==
    LET normalized == NormalizeTextForCache(test_case.text)
        text == IF Len(normalized) > HashThreshold THEN Sha256(normalized) ELSE normalized
    IN Sha256(StrTokens(model_id) \o <<":">> \o task \o <<":">> \o test_case.id \o <<":">> \o text)

\* run_benchmark.load_cached_result
LoadCachedResult(cache, cache_key) ==
    IF cache_key \in DOMAIN cache THEN cache[cache_key] ELSE NoResult

\* Outputs a generation model may return: a summary that starts with an H1
\* heading, and nothing.
GoodSummary == <<"#", " ", "a">>
EmptyOutput == <<>>

\* What client.generate returns to run_single_benchmark (client.py 183-194,
\* 211-217) with the cost run_single_benchmark 245-252 puts in: a text, or
\* the last error after the retries, which is "HTTP <status>: ..." or str(e).
GenerationOutcomes ==
    { [text |-> o, cost |-> 3, error |-> None] : o \in {GoodSummary, EmptyOutput} }
    \cup
    { [text |-> EmptyOutput, cost |-> 0, error |-> m] : m \in ErrorMessages }

\* The generation ended in the terminal error return of client.generate.
IsTerminalError(result) == result.error # None

\* run_single_benchmark 254-262
ErrorRecord(model_id, task, test_case, result) ==
    [model_id |-> model_id, task |-> task, test_case_id |-> test_case.id,
     error |-> result.error, cost |-> 0]

\* ------------------------------------------------------------------------
\* evaluators/format_checker.py
\* ------------------------------------------------------------------------
\* A text is a sequence of tokens: the characters "#", " ", "a", "$", the
\* character runs "---" and "FENCE" (three backquotes), a forbidden phrase, and the tokens of a
\* JSON document. An issue is the sequence of the pieces of its message.

MarkdownIssuePenalty == 5
LatexIssuePenalty == 3
JsonSchemaIssuePenalty == 10
LatexInJsonPenalty == 2

\* str.startswith
StartsWith(text, prefix) ==
    Len(prefix) <= Len(text) /\ SubSeq(text, 1, Len(prefix)) = prefix

\* str.count, for a one-token pattern
Count(text, token) == Cardinality({i \in DOMAIN text : text[i] = token})

\* str.lower, token by token
Lower(token) ==
    CASE token = "Damit kann man sich gut vorbereiten" -> "damit kann man sich gut vorbereiten"
      [] token = "DAMIT KANN MAN SICH GUT VORBEREITEN" -> "damit kann man sich gut vorbereiten"
      [] token = "Alles kommt aus den Vorlesungsfolien" -> "alles kommt aus den vorlesungsfolien"
      [] token = "Diese Zusammenfassung basiert auf" -> "diese zusammenfassung basiert auf"
      [] OTHER -> token

\* str(i) for the indices and numbers that occur
Str(i) ==
    CASE i = 0 -> "0" [] i = 1 -> "1" [] i = 2 -> "2" [] i = 3 -> "3"
      [] i = 7 -> "7" [] i = 42 -> "42"

\* check_latex_escaping 13-55. Without a line break in the text,
\* re.findall(r'\$[^$]*$', text, re.MULTILINE) finds exactly one match when
\* the text holds a "$" (the last "$" up to the end) and none otherwise; a
\* match of r'\$\$[^$]+\$\$' is at least 5 characters long, so the display
\* block loop adds nothing.
CheckLatexEscaping(text) ==
    LET dollar_count == Count(text, "$")
        unclosed_inline == IF dollar_count > 0 THEN 1 ELSE 0
    IN  (IF unclosed_inline > 0
         THEN << <<"Unclosed inline LaTeX: ", Str(unclosed_inline), " instances">> >>
         ELSE <<>>)
        \o (IF dollar_count > 0 /\ dollar_count % 2 # 0
            THEN << <<"Unpaired dollar signs (LaTeX delimiters)">> >>
            ELSE <<>>)

forbidden_phrases ==
    <<"Damit kann man sich gut vorbereiten",
      "Alles kommt aus den Vorlesungsfolien",
      "Diese Zusammenfassung basiert auf">>

\* check_markdown_structure 57-91
CheckMarkdownStructure(text) ==
    LET stripped == Strip(text)
        found == SelectSeq(forbidden_phrases,
                           LAMBDA phrase : \E i \in DOMAIN text : Lower(text[i]) = Lower(phrase))
    IN  (IF ~StartsWith(stripped, <<"#">>)
         THEN << <<"Does not start with H1 heading">> >>
         ELSE IF ~StartsWith(stripped, <<"#", " ">>)
         THEN << <<"First heading is not properly formatted H1 (# Title)">> >>
         ELSE <<>>)
        \o (IF StartsWith(stripped, <<"---">>)
            THEN << <<"Contains frontmatter (---)">> >>
            ELSE <<>>)
        \o [k \in 1..Len(found) |-> <<"Contains forbidden phrase: ", found[k]>>]
        \o (IF Count(text, "FENCE") % 2 # 0 THEN << <<"Unclosed code block">> >> ELSE <<>>)

\* JSON values as json.loads builds them
JsonString(s) == [t |-> "str", v |-> s]
JsonArray(a) == [t |-> "list", v |-> a]
JsonObject(d) == [t |-> "dict", v |-> d]
IsDict(x) == x.t = "dict"
IsList(x) == x.t = "list"
IsInt(x) == x.t = "num"

quiz_required_fields ==
    <<"sectionId", "sectionTitle", "question", "options", "correctIndex", "sourceSnippet">>
flashcard_required_fields ==
    <<"sectionId", "sectionTitle", "type", "front", "back", "sourceSnippet">>

MissingFields(label, i, d, required_fields) ==
    LET missing == SelectSeq(required_fields, LAMBDA field : field \notin DOMAIN d)
    IN  [k \in 1..Len(missing) |-> <<label, Str(i), " missing field: ", missing[k]>>]

\* check_json_structure 108-127: the issues of questions[i]; i counts from 0
QuestionIssues(i, q) ==
    IF ~IsDict(q) THEN << <<"Question ", Str(i), " is not an object">> >>
    ELSE MissingFields("Question ", i, q.v, quiz_required_fields)
         \o (IF "options" \in DOMAIN q.v
             THEN IF ~IsList(q.v["options"])
                  THEN << <<"Question ", Str(i), " options is not an array">> >>
                  ELSE IF Len(q.v["options"].v) # 4
                  THEN << <<"Question ", Str(i), " does not have exactly 4 options">> >>
                  ELSE <<>>
             ELSE <<>>)
         \o (IF "correctIndex" \in DOMAIN q.v
             THEN LET idx == q.v["correctIndex"]
                  IN  IF ~IsInt(idx) \/ idx.v < 0 \/ idx.v > 3
                      THEN << <<"Question ", Str(i), " has invalid correctIndex">> >>
                      ELSE <<>>
             ELSE <<>>)

\* check_json_structure 135-147: the issues of flashcards[i]
FlashcardIssues(i, card) ==
    IF ~IsDict(card) THEN << <<"Flashcard ", Str(i), " is not an object">> >>
    ELSE MissingFields("Flashcard ", i, card.v, flashcard_required_fields)
         \o (IF "type" \in DOMAIN card.v
             THEN IF card.v["type"] \notin {JsonString(<<"qa">>), JsonString(<<"cloze">>)}
                  THEN << <<"Flashcard ", Str(i), " has invalid type">> >>
                  ELSE <<>>
             ELSE <<>>)

\* the issues of items[i..], in the order of the list
RECURSIVE ItemIssues(_, _, _)
ItemIssues(schema_type, items, i) ==
    IF i >= Len(items) THEN <<>>
    ELSE (IF schema_type = "quiz" THEN QuestionIssues(i, items[i + 1])
          ELSE FlashcardIssues(i, items[i + 1]))
         \o ItemIssues(schema_type, items, i + 1)

\* check_json_structure 94-150
CheckJsonStructure(data, schema_type) ==
    IF ~IsDict(data) THEN << <<"Top level is not an object">> >>
    ELSE IF schema_type = "quiz"
    THEN IF "questions" \notin DOMAIN data.v THEN << <<"Missing 'questions' key">> >>
         ELSE IF ~IsList(data.v["questions"]) THEN << <<"'questions' is not an array">> >>
         ELSE ItemIssues("quiz", data.v["questions"].v, 0)
    ELSE IF schema_type = "flashcards"
    THEN IF "flashcards" \notin DOMAIN data.v THEN << <<"Missing 'flashcards' key">> >>
         ELSE IF ~IsList(data.v["flashcards"]) THEN << <<"'flashcards' is not an array">> >>
         ELSE ItemIssues("flashcards", data.v["flashcards"].v, 0)
    ELSE <<>>

\* The order in which the keys of an object are written.
KeyOrder ==
    <<"questions", "flashcards", "sectionId", "sectionTitle", "question", "type", "front",
      "back", "options", "correctIndex", "sourceSnippet">>

\* json.dumps(value) with the default separators ", " and ": "
RECURSIVE JsonDumps(_), DumpItems(_, _), DumpMembers(_, _)
JsonDumps(x) ==
    CASE x.t = "num" -> <<Str(x.v)>>
      [] x.t = "str" -> <<"\"">> \o x.v \o <<"\"">>
      [] x.t = "list" -> <<"[">> \o DumpItems(x.v, 1) \o <<"]">>
      [] x.t = "dict" ->
           <<"{">> \o DumpMembers(x.v, SelectSeq(KeyOrder, LAMBDA k : k \in DOMAIN x.v))
           \o <<"}">>
DumpItems(a, i) ==
    IF i > Len(a) THEN <<>>
    ELSE (IF i > 1 THEN <<", ">> ELSE <<>>) \o JsonDumps(a[i]) \o DumpItems(a, i + 1)
DumpMembers(d, keys) ==
    IF keys = <<>> THEN <<>>
    ELSE <<"\"", Head(keys), "\"", ": ">> \o JsonDumps(d[Head(keys)])
         \o (IF Len(keys) > 1 THEN <<", ">> ELSE <<>>) \o DumpMembers(d, Tail(keys))

\* Lists of questions or flashcards have at most MaxItems elements.
MaxItems == 2

PlainString == JsonString(<<"a">>)
LatexString == JsonString(<<"$">>)
FourOptions == JsonArray(<<PlainString, PlainString, PlainString, PlainString>>)

FullQuestion ==
    JsonObject([k \in Range(quiz_required_fields) |->
                  CASE k = "options" -> FourOptions
                    [] k = "correctIndex" -> JsonNum(0)
                    [] OTHER -> PlainString])
FullFlashcard ==
    JsonObject([k \in Range(flashcard_required_fields) |->
                  IF k = "type" THEN JsonString(<<"qa">>) ELSE PlainString])

\* Questions a model may write: complete; complete with a "$" in a string;
\* three options and an index out of range; options and index of the wrong
\* type; no field at all; not an object.
Questions ==
    { FullQuestion,
      JsonObject([FullQuestion.v EXCEPT !["question"] = LatexString]),
      JsonObject([FullQuestion.v EXCEPT
                    !["options"] = JsonArray(<<PlainString, PlainString, PlainString>>),
                    !["correctIndex"] = JsonNum(7)]),
      JsonObject([FullQuestion.v EXCEPT !["options"] = PlainString,
                                        !["correctIndex"] = PlainString]),
      JsonObject(<<>>),
      JsonNum(42) }

Flashcards ==
    { FullFlashcard,
      JsonObject([FullFlashcard.v EXCEPT !["front"] = LatexString]),
      JsonObject([FullFlashcard.v EXCEPT !["type"] = PlainString]),
      JsonObject(<<>>),
      JsonNum(42) }

\* The JSON documents of the model: what json.loads accepts.
JsonValues ==
    {JsonNum(42), JsonObject(<<>>)}
    \cup { JsonObject([k \in {"questions"} |-> v]) :
             v \in {PlainString} \cup {JsonArray(a) : a \in SeqsUpTo(Questions, MaxItems)} }
    \cup { JsonObject([k \in {"flashcards"} |-> v]) :
             v \in {PlainString} \cup {JsonArray(a) : a \in SeqsUpTo(Flashcards, MaxItems)} }

JsonTexts == {JsonDumps(v) : v \in JsonValues}

JSONDecodeError == [t |-> "JSONDecodeError", v |-> "Expecting value"]

\* A json.loads that takes a text that is no JSON document for a string.
JsonLoadsLenient(text) ==
    IF text \in JsonTexts THEN CHOOSE v \in JsonValues : JsonDumps(v) = text
    ELSE JsonString(text)

\* json.loads(text): the value the text is the serialisation of, or the
\* JSONDecodeError raised.
JsonLoads(text) ==
    IF text \in JsonTexts THEN CHOOSE v \in JsonValues : JsonDumps(v) = text
    ELSE JSONDecodeError

\* parsed_json = None
NoJson == [t |-> "None", v |-> 0]

Prefixed(prefix, issues) == [k \in 1..Len(issues) |-> <<prefix>> \o issues[k]]

\* The clamp without its lower end.
ClampAbove(score) == Min2(100, score)

\* evaluate_reliability 239-240
ClampReliability(score) == Max2(1, Min2(100, score))

\* evaluate_reliability 153-246
EvaluateReliability(task_type, output_text, parsed_json_arg) ==
    IF output_text = <<>> \/ IsBlank(output_text)
    THEN [reliability_score |-> Max2(1, 1),
          issues |-> << <<"Empty output text">> >>,
          details |-> IF task_type \in {"quiz", "flashcards"}
                      THEN [empty_output |-> TRUE, json_parseable |-> FALSE,
                            parse_error |-> "Empty output text"]
                      ELSE [empty_output |-> TRUE]]
    ELSE IF task_type = "summary"
    THEN LET md_issues == CheckMarkdownStructure(output_text)
             latex_issues == CheckLatexEscaping(output_text)
             score == 100 - Len(md_issues) * MarkdownIssuePenalty
                          - Len(latex_issues) * LatexIssuePenalty
         IN  [reliability_score |-> ClampReliability(score),
              issues |-> md_issues \o latex_issues,
              details |-> [markdown_valid |-> md_issues = <<>>,
                           latex_valid |-> latex_issues = <<>>]]
    ELSE IF task_type \in {"quiz", "flashcards"}
    THEN LET parsed_json == IF parsed_json_arg = NoJson THEN JsonLoads(output_text)
                            ELSE parsed_json_arg
         IN  IF parsed_json = JSONDecodeError
             THEN [reliability_score |-> Max2(1, 1),
                   issues |-> << <<"JSON parse error: ", JSONDecodeError.v>> >>,
                   details |-> [json_parseable |-> FALSE,
                                parse_error |-> JSONDecodeError.v]]
             ELSE LET json_issues == CheckJsonStructure(parsed_json, task_type)
                      latex_issues == CheckLatexEscaping(JsonDumps(parsed_json))
                      score == 100 - Len(json_issues) * JsonSchemaIssuePenalty
                                   - Len(latex_issues) * LatexInJsonPenalty
                  IN  [reliability_score |-> ClampReliability(score),
                       issues |-> json_issues \o Prefixed("LaTeX in JSON: ", latex_issues),
                       details |-> [json_parseable |-> TRUE,
                                    json_valid |-> json_issues = <<>>]]
    ELSE [reliability_score |-> ClampReliability(100), issues |-> <<>>,
          details |-> EmptyDict]

\* run_single_benchmark 282, 293: the reliability_score of a result
ReliabilityScore(task, output_text) ==
    EvaluateReliability(Head(task), output_text, NoJson).reliability_score

\* Exact fractions <<numerator, denominator>>.
RatAdd(a, b) == <<a[1] * b[2] + b[1] * a[2], a[2] * b[2]>>
RatAtLeastOne(a) == IF a[1] >= a[2] THEN a ELSE <<1, 1>>

RECURSIVE SumOfMeans(_, _)
SumOfMeans(aggregated, keys) ==
    IF keys = {} THEN <<0, 1>>
    ELSE LET k == CHOOSE x \in keys : TRUE
         IN RatAdd(RatAtLeastOne(aggregated[k].mean), SumOfMeans(aggregated, keys \ {k}))

\* run_single_benchmark 300-311: content_quality_score
ContentQualityScore(judge_result) ==
    LET aggregated == Get(judge_result, "aggregated_scores", EmptyDict)
        keys == DOMAIN aggregated \ {"reasoning"}
    IN IF keys # {}
         THEN LET total == SumOfMeans(aggregated, keys)
              IN <<total[1], total[2] * Cardinality(keys)>>
         ELSE <<1, 1>>

\* run_single_benchmark 313-335
BenchmarkResult(model_id, task, test_case, result, judge_result) ==
    [model_id |-> model_id, task |-> task, test_case_id |-> test_case.id,
     output_text |-> result.text,
     reliability_score |-> ReliabilityScore(task, result.text),
     content_quality_score |-> ContentQualityScore(judge_result),
     judge_evaluation |-> judge_result,
     cost |-> result.cost + judge_result.total_judge_cost,
     generation_cost |-> result.cost,
     judge_cost |-> judge_result.total_judge_cost]

\* Answers of the judges of one evaluation: every judge scores, or every
\* judge call ends in an error.
JudgeAnswer(model_id, scores) ==
    IF scores
      THEN [text |-> TextJsonObject([quality |-> JsonNum(50), reasoning |-> JsonStr]),
            cost |-> 0, billed |-> JudgeCost(model_id), error |-> None]
      ELSE [text |-> TextEmpty, cost |-> 0, billed |-> 0, error |-> "HTTP 500"]

\* What evaluate_with_consensus may return to run_single_benchmark 289-298.
JudgeResultsFor(judge_models, output_text) ==
    IF output_text = <<>> \/ IsBlank(output_text) THEN {EmptyOutputResult}
    ELSE IF judge_models = <<>> THEN {NoJudgesAvailableResult}
    ELSE { ConsensusResult(judge_models,
                           Judgments(judge_models,
                                     [j \in Range(judge_models) |-> JudgeAnswer(j, scores)])) :
           scores \in BOOLEAN }

\* ------------------------------------------------------------------------
\* The result corpus and the metrics
\* ------------------------------------------------------------------------
\* A file of results: absent, or holding a JSON list.
Missing == [exists |-> FALSE, data |-> <<>>]
File(rs) == [exists |-> TRUE, data |-> rs]

\* f"{r.get('model_id')}:{r.get('task')}:{r.get('test_case_id')}"
ResultKey(r) ==
    StrTokens(Get(r, "model_id", None)) \o <<":">> \o Get(r, "task", <<"None">>)
        \o <<":">> \o Get(r, "test_case_id", <<"None">>)

\* results_dict[key] = r on a dict kept as the list of its values in
\* insertion order: an existing key keeps its place and takes the new value.
DictPut(values, r) ==
    IF \E i \in DOMAIN values : ResultKey(values[i]) = ResultKey(r)
      THEN [i \in DOMAIN values |-> IF ResultKey(values[i]) = ResultKey(r) THEN r ELSE values[i]]
      ELSE Append(values, r)

\* A merge that appends the new results to the existing ones.
MergeByAppending(existing, new) == existing \o new

RECURSIVE DictPutAll(_, _)
DictPutAll(values, rs) ==
    IF rs = <<>> THEN values ELSE DictPutAll(DictPut(values, Head(rs)), Tail(rs))

\* run_benchmark 541-547: merged_results
Merge(existing, new) == DictPutAll(DictPutAll(<<>>, existing), new)

\* run_benchmark 566: all_model_ids
AllModelIds(merged) ==
    {Get(merged[i], "model_id", None) : i \in DOMAIN merged} \ {None, ""}

\* run_benchmark 571: the results aggregate_model_metrics is given
ModelResults(merged, model_id) ==
    SelectSeq(merged, LAMBDA r : Get(r, "model_id", None) = model_id
                                 /\ ~Truthy(Get(r, "error", None)))

\* metrics.calculate_comprehensive_model_metrics 565: valid_results
ValidResults(all_results) == SelectSeq(all_results, LAMBDA r : ~Truthy(Get(r, "error", None)))

\* ------------------------------------------------------------------------
\* evaluators/metrics.py: aggregate_model_metrics
\* ------------------------------------------------------------------------
\* Scores, means and weights are exact fractions <<numerator, denominator>>
\* with a positive denominator; a weight w is the fraction <<100 * w, 100>>.

RECURSIVE Gcd(_, _)
Gcd(a, b) == IF b = 0 THEN a ELSE Gcd(b, a % b)

\* F(x), with x evaluated once
With(F(_), x) == CHOOSE r \in {F(v) : v \in {x}} : TRUE

\* The fraction in lowest terms.
Norm(q) ==
    With(LAMBDA v : With(LAMBDA g : <<v[1] \div g, v[2] \div g>>,
                         Gcd(IF v[1] < 0 THEN -v[1] ELSE v[1], v[2])),
         q)

Rat(x) == <<x, 1>>
RatPlus(a, b) == With(LAMBDA x : With(LAMBDA y : Norm(RatAdd(x, y)), b), a)
RatMul(a, b) ==
    With(LAMBDA x : With(LAMBDA y : Norm(<<x[1] * y[1], x[2] * y[2]>>), b), a)
RatEq(a, b) == a[1] * b[2] = b[1] * a[2]
RatLess(a, b) == a[1] * b[2] < b[1] * a[2]
RatLeq(a, b) == a[1] * b[2] <= b[1] * a[2]

RECURSIVE RatSum(_)
RatSum(s) == IF s = <<>> THEN Rat(0) ELSE RatPlus(Head(s), RatSum(Tail(s)))

\* statistics.mean
RatMean(s) == With(LAMBDA total : Norm(<<total[1], total[2] * Len(s)>>), RatSum(s))

\* max and min of a non-empty series
RatMax(s) == CHOOSE x \in Range(s) : \A y \in Range(s) : RatLeq(y, x)
RatMin(s) == CHOOSE x \in Range(s) : \A y \in Range(s) : RatLeq(x, y)

\* the concatenation of a sequence of sequences
RECURSIVE Flatten(_)
Flatten(ss) == IF ss = <<>> THEN <<>> ELSE Head(ss) \o Flatten(Tail(ss))

\* metrics.py 11-15, in hundredths
WEIGHT_FACTUAL_ACCURACY == 30
WEIGHT_COMPLETENESS == 25
WEIGHT_CLARITY_STRUCTURE == 20
WEIGHT_LANGUAGE_QUALITY == 15
WEIGHT_USABILITY == 10

EVALUATION_DIMENSIONS ==
    <<"factual_accuracy", "completeness", "clarity_structure", "language_quality",
      "usability", "technical_correctness">>

\* The weight of each dimension of the universal score (none for
\* technical_correctness).
UniversalWeights ==
    [factual_accuracy |-> WEIGHT_FACTUAL_ACCURACY, completeness |-> WEIGHT_COMPLETENESS,
     clarity_structure |-> WEIGHT_CLARITY_STRUCTURE, language_quality |-> WEIGHT_LANGUAGE_QUALITY,
     usability |-> WEIGHT_USABILITY]

WeightedDimensions ==
    <<"factual_accuracy", "completeness", "clarity_structure", "language_quality", "usability">>

\* max(1.0, min(100.0, x))
RatClamp(q) ==
    With(LAMBDA v : IF RatLess(v, Rat(1)) THEN Rat(1)
                    ELSE IF RatLess(Rat(100), v) THEN Rat(100) ELSE v,
         q)

\* calculate_universal_weighted_score 66-103
CalculateUniversalWeightedScore(aggregated_scores) ==
    LET get_score(dimension) ==
            IF dimension \in DOMAIN aggregated_scores
               /\ "mean" \in DOMAIN aggregated_scores[dimension]
            THEN aggregated_scores[dimension].mean
            ELSE Rat(50)
        weighted_score ==
            RatSum([i \in DOMAIN WeightedDimensions |->
                      RatMul(get_score(WeightedDimensions[i]),
                             <<UniversalWeights[WeightedDimensions[i]], 100>>)])
    IN  RatClamp(weighted_score)

\* aggregated = r.get("judge_evaluation", {}).get("aggregated_scores", {})
AggregatedOf(r) ==
    Get(Get(r, "judge_evaluation", EmptyDict), "aggregated_scores", EmptyDict)

\* aggregate_model_metrics 148-157: what a result adds to quality_overall
QualitySample(r) ==
    LET aggregated == AggregatedOf(r)
    IN  IF "quality" \in DOMAIN aggregated THEN <<aggregated["quality"].mean>>
        ELSE IF "question_quality" \in DOMAIN aggregated
        THEN <<aggregated["question_quality"].mean>>
        ELSE IF "clarity" \in DOMAIN aggregated THEN <<aggregated["clarity"].mean>>
        ELSE <<>>

\* aggregate_model_metrics 160-169: what a result adds to the series of dim
DimensionSample(r, dim) ==
    LET aggregated == AggregatedOf(r)
    IN  IF dim \in DOMAIN aggregated THEN <<aggregated[dim].mean>> ELSE <<>>

\* [r.get(key, 0) for r in results if key in r]
FieldSeries(rs, key) ==
    Flatten([i \in DOMAIN rs |-> IF key \in DOMAIN rs[i] THEN <<Rat(rs[i][key])>> ELSE <<>>])

\* A detection that looks at the smallest positive score only.
IsLegacyScaleByMin(all_score_values) ==
    /\ all_score_values # <<>>
    /\ \E i \in DOMAIN all_score_values :
          RatLess(Rat(0), all_score_values[i]) /\ RatLeq(all_score_values[i], Rat(10))

\* aggregate_model_metrics 186-190: everything is in (0, 10] and not all zeros
IsLegacyScale(all_score_values) ==
    /\ all_score_values # <<>>
    /\ LET max_val == RatMax(all_score_values)
           positive == SelectSeq(all_score_values, LAMBDA v : RatLess(Rat(0), v))
           min_pos == IF positive # <<>> THEN RatMin(positive) ELSE Rat(0)
       IN  /\ RatLess(Rat(0), max_val)
           /\ RatLeq(max_val, Rat(10))
           /\ RatLess(Rat(0), min_pos)

\* aggregate_model_metrics 123-169: the series collected from the results
CollectedScores(rs) ==
    [reliability |-> FieldSeries(rs, "reliability_score"),
     quality_overall |-> Flatten([i \in DOMAIN rs |-> QualitySample(rs[i])]),
     evaluation |-> [dim \in Range(EVALUATION_DIMENSIONS) |->
                       Flatten([i \in DOMAIN rs |-> DimensionSample(rs[i], dim)])],
     costs |-> FieldSeries(rs, "cost"),
     latencies |-> FieldSeries(rs, "latency_ms")]

\* aggregate_model_metrics 179-186: all_score_values
AllScoreValues(collected_scores) ==
    collected_scores.reliability \o collected_scores.quality_overall
    \o collected_scores.evaluation["factual_accuracy"]
    \o collected_scores.evaluation["completeness"]
    \o Flatten([i \in DOMAIN EVALUATION_DIMENSIONS |->
                  collected_scores.evaluation[EVALUATION_DIMENSIONS[i]]])

\* [v * scale for v in series]
Scaled(series, scale) == [i \in DOMAIN series |-> RatMul(series[i], Rat(scale))]

\* aggregate_model_metrics 188-199: the score series after the legacy
\* upscale; costs and latencies are not touched
Upscaled(collected_scores) ==
    With(LAMBDA scale :
            [collected_scores EXCEPT
                !.reliability = Scaled(@, scale),
                !.quality_overall = Scaled(@, scale),
                !.evaluation = [dim \in DOMAIN @ |-> Scaled(@[dim], scale)]],
         IF IsLegacyScale(AllScoreValues(collected_scores)) THEN 10 ELSE 1)

\* The statistics of a score series that the properties read.
SeriesStats(scores) ==
    [mean |-> IF scores # <<>> THEN RatMean(scores) ELSE Rat(0),
     min |-> IF scores # <<>> THEN RatMin(scores) ELSE Rat(0),
     max |-> IF scores # <<>> THEN RatMax(scores) ELSE Rat(0)]

\* config = None
NoConfig == [none |-> TRUE]

\* config.get(key, default) if config else default, in hundredths
ConfigWeight(config, key, default) ==
    IF config = NoConfig THEN default ELSE Get(config, key, default)

\* aggregate_model_metrics 203-257: the statistics of the series
SeriesMetrics(series, test_count) ==
    [dim \in Range(EVALUATION_DIMENSIONS) |-> SeriesStats(series.evaluation[dim])] @@
    [reliability |-> SeriesStats(series.reliability),
     content_quality |-> SeriesStats(series.quality_overall),
     cost |-> [total |-> RatSum(series.costs),
               mean |-> IF series.costs # <<>> THEN RatMean(series.costs) ELSE Rat(0)],
     latency |-> [mean |-> IF series.latencies # <<>> THEN RatMean(series.latencies)
                           ELSE Rat(0)],
     test_count |-> test_count]

\* aggregate_model_metrics 268-275, 335-339: the derived scores
DerivedScores(metrics_arg, config) ==
    [combined_score |->
         RatPlus(RatMul(metrics_arg["reliability"].mean,
                        <<ConfigWeight(config, "reliability_weight", 30), 100>>),
                 RatMul(metrics_arg["content_quality"].mean,
                        <<ConfigWeight(config, "quality_weight", 70), 100>>)),
     universal_weighted_score |->
         CalculateUniversalWeightedScore(
             [dim \in Range(EVALUATION_DIMENSIONS) \cap DOMAIN metrics_arg |->
                 metrics_arg[dim]])]

\* aggregate_model_metrics 106-365, without std_dev, median, percentiles, the
\* cost per point and overall_score
AggregateModelMetrics(rs, config) ==
    IF rs = <<>> THEN EmptyDict
    ELSE With(LAMBDA collected_scores :
           With(LAMBDA series :
             With(LAMBDA m : m @@ DerivedScores(m, config),
                  SeriesMetrics(series, Len(rs))),
             Upscaled(collected_scores)),
           CollectedScores(rs))

\* run_benchmark 569-573
ModelMetricsOverall(merged) ==
    [m \in {x \in AllModelIds(merged) : ModelResults(merged, x) # <<>>} |->
        AggregateModelMetrics(ModelResults(merged, m), NoConfig)]

\* run_benchmark 576-580 with calculate_comprehensive_model_metrics 565-571
ModelMetricsComprehensive(merged) ==
    [m \in AllModelIds(merged) |->
        LET valid_results == ValidResults(SelectSeq(merged, LAMBDA r : Get(r, "model_id", None) = m))
        IN IF valid_results = <<>> THEN EmptyDict
           ELSE [overall |-> AggregateModelMetrics(valid_results, NoConfig)]]

NoMetrics == [none |-> TRUE]

vars == <<evalVars, runVars, callVars>>

\* ------------------------------------------------------------------------
\* A benchmark run: the tasks, the collection loop and the persistence
\* ------------------------------------------------------------------------
ModelOf(t) == AvailableModels[t]

\* A semaphore that lets every task in.
SemaphoreAlwaysFree == TRUE

\* asyncio.Semaphore.acquire returns at once while the value is positive.
SemaphoreFree == semaphore > 0

\* The next result asyncio.as_completed yields: the earliest finished task.
NextCompleted(queue) == Head(queue)

\* The task returns r: it leaves the semaphore and its future completes.
Finish(t, r, held) ==
    /\ tresult' = [tresult EXCEPT ![t] = r]
    /\ tpc' = [tpc EXCEPT ![t] = "finished"]
    /\ semaphore' = IF held THEN semaphore + 1 ELSE semaphore
    /\ doneQueue' = Append(doneQueue, t)
    /\ finishOrder' = Append(finishOrder, t)

persistVars == <<rpc, corpus, tempFile, existing_results, merged_results, metrics,
                 load_attempt, otherRun, forced>>

\* cache_key of the task of each model (run_single_benchmark 191)
CacheKeys == [m \in Range(AvailableModels) |-> GetCacheKey(m, SummaryTask, TestCase)]

\* The BenchmarkResults run_single_benchmark 264-335 can build for a model
\* from a generation result without error, one for each result the
\* consensus evaluation may return.
EvaluatedResults ==
    [m \in Range(AvailableModels) |->
        [result \in {g \in GenerationOutcomes : ~Truthy(g.error)} |->
            { BenchmarkResult(m, SummaryTask, TestCase, result, judge_result) :
              judge_result \in JudgeResultsFor(JudgeModelsFor(m), result.text) }]]

\* run_single_benchmark 190-197: enter the semaphore, look the result up in
\* the cache, return it (leaving the semaphore) or go on to generate.
Acquire(t) ==
    /\ rpc = "running"
    /\ tpc[t] = "pending"
    /\ SemaphoreFree
    /\ LET cache_key == CacheKeys[ModelOf(t)]
           cached == IF use_cache THEN LoadCachedResult(resultCache, cache_key) ELSE NoResult
       IN IF cached # NoResult
            THEN Finish(t, cached, FALSE)
            ELSE /\ semaphore' = semaphore - 1
                 /\ tpc' = [tpc EXCEPT ![t] = "generating"]
                 /\ UNCHANGED <<tresult, doneQueue, finishOrder>>
    /\ UNCHANGED <<use_cache, resultCache, toutput, results, collected, failed,
                   last_generated>>
    /\ UNCHANGED persistVars
    /\ UNCHANGED <<evalVars, callVars>>

\* run_single_benchmark 236-262: client.generate returns; an error result
\* ends the task with an error record.
Generate(t) ==
    /\ tpc[t] = "generating"
    /\ \E result \in GenerationOutcomes :
         /\ failed' = IF IsTerminalError(result) THEN failed \cup {t} ELSE failed
         /\ IF Truthy(result.error)
              THEN /\ Finish(t, ErrorRecord(ModelOf(t), SummaryTask, TestCase, result), TRUE)
                   /\ UNCHANGED toutput
              ELSE /\ toutput' = [toutput EXCEPT ![t] = result]
                   /\ tpc' = [tpc EXCEPT ![t] = "evaluating"]
                   /\ UNCHANGED <<tresult, semaphore, doneQueue, finishOrder>>
    /\ UNCHANGED <<use_cache, resultCache, results, collected, last_generated>>
    /\ UNCHANGED persistVars
    /\ UNCHANGED <<evalVars, callVars>>

\* run_single_benchmark 264-341: reliability, the judges' consensus (its
\* cache is the subject of SpecCache), the BenchmarkResult and its cache entry.
Evaluate(t) ==
    /\ tpc[t] = "evaluating"
    /\ \E r \in EvaluatedResults[ModelOf(t)][toutput[t]] :
         /\ Finish(t, r, TRUE)
         /\ resultCache' = IF use_cache
                             THEN [k \in DOMAIN resultCache \cup {CacheKeys[ModelOf(t)]} |->
                                     IF k = CacheKeys[ModelOf(t)] THEN r ELSE resultCache[k]]
                             ELSE resultCache
         /\ last_generated' =
               [k \in DOMAIN last_generated \cup {CacheKeys[ModelOf(t)]} |->
                   IF k = CacheKeys[ModelOf(t)] THEN r ELSE last_generated[k]]
    /\ UNCHANGED <<use_cache, toutput, results, collected, failed>>
    /\ UNCHANGED persistVars
    /\ UNCHANGED <<evalVars, callVars>>

\* run_benchmark 485-488: the loop over asyncio.as_completed appends the next
\* finished result; after the last one the run goes on to save.
Collect ==
    /\ rpc = "running"
    /\ doneQueue # <<>>
    /\ LET t == NextCompleted(doneQueue)
       IN /\ results' = Append(results, tresult[t])
          /\ collected' = Append(collected, t)
          /\ tpc' = [tpc EXCEPT ![t] = "collected"]
          /\ doneQueue' = SelectSeq(doneQueue, LAMBDA x : x # t)
          /\ rpc' = IF Len(results) + 1 = NumModels THEN "load" ELSE "running"
    /\ UNCHANGED <<use_cache, resultCache, semaphore, toutput, tresult, finishOrder, failed,
                   last_generated>>
    /\ UNCHANGED <<corpus, tempFile, existing_results, merged_results, metrics,
                   load_attempt, otherRun, forced>>
    /\ UNCHANGED <<evalVars, callVars>>

taskVars == <<use_cache, resultCache, semaphore, tpc, toutput, tresult, doneQueue, results,
              finishOrder, collected, failed, forced, last_generated>>

\* run_benchmark 528: max_retries
max_retries == 5

\* run_benchmark 526-539: one pass of the retry loop. There is nothing to
\* read when the file does not exist. Reading an existing file either gives
\* its records, or raises json.JSONDecodeError or IOError: the loop then
\* sleeps and tries again, and after the last attempt it prints a warning
\* and goes on with existing_results = [].
LoadExistingResults ==
    /\ rpc = "load"
    /\ \/ /\ existing_results' = IF corpus.exists THEN corpus.data ELSE <<>>
          /\ rpc' = "merge"
          /\ UNCHANGED load_attempt
       \/ /\ corpus.exists
          /\ load_attempt' = load_attempt + 1
          /\ rpc' = IF load_attempt < max_retries - 1 THEN "load" ELSE "merge"
          /\ UNCHANGED existing_results
    /\ UNCHANGED <<corpus, tempFile, merged_results, metrics, otherRun>>
    /\ UNCHANGED taskVars
    /\ UNCHANGED <<evalVars, callVars>>

\* run_benchmark 541-554: merge, and json.dump into the temporary file
WriteTemp ==
    /\ rpc = "merge"
    /\ merged_results' = Merge(existing_results, results)
    /\ tempFile' = File(Merge(existing_results, results))
    /\ rpc' = "replace"
    /\ UNCHANGED <<corpus, existing_results, metrics, load_attempt, otherRun>>
    /\ UNCHANGED taskVars
    /\ UNCHANGED <<evalVars, callVars>>

\* run_benchmark 556-562: temp_path.replace(results_path). Without the
\* temporary file the replace raises FileNotFoundError, which run_benchmark
\* raises again.
ReplaceTemp ==
    /\ rpc = "replace"
    /\ IF tempFile.exists
         THEN /\ corpus' = tempFile
              /\ tempFile' = Missing
              /\ rpc' = "metrics"
         ELSE /\ rpc' = "raised"
              /\ UNCHANGED <<corpus, tempFile>>
    /\ UNCHANGED <<existing_results, merged_results, metrics, load_attempt, otherRun>>
    /\ UNCHANGED taskVars
    /\ UNCHANGED <<evalVars, callVars>>

\* run_benchmark 564-590: the metrics of the merged results
SaveMetrics ==
    /\ rpc = "metrics"
    /\ metrics' = [model_metrics |-> ModelMetricsOverall(merged_results),
                   model_metrics_comprehensive |-> ModelMetricsComprehensive(merged_results)]
    /\ rpc' = "done"
    /\ UNCHANGED <<corpus, tempFile, existing_results, merged_results, load_attempt,
                   otherRun>>
    /\ UNCHANGED taskVars
    /\ UNCHANGED <<evalVars, callVars>>

\* No second process.
NoRun ==
    [pc |-> "off", results |-> <<>>, existing_results |-> <<>>, merged_results |-> <<>>,
     load_attempt |-> 0]

\* No run in progress (the state of the run outside its specifications).
RunIdle ==
    /\ use_cache = FALSE
    /\ resultCache = EmptyDict
    /\ semaphore = ConcurrencyLimit
    /\ tpc = [t \in Tasks |-> "off"]
    /\ toutput = [t \in Tasks |-> NoResult]
    /\ tresult = [t \in Tasks |-> NoResult]
    /\ doneQueue = <<>>
    /\ results = <<>>
    /\ rpc = "off"
    /\ corpus = Missing
    /\ tempFile = Missing
    /\ existing_results = <<>>
    /\ merged_results = <<>>
    /\ metrics = NoMetrics
    /\ finishOrder = <<>>
    /\ collected = <<>>
    /\ failed = {}
    /\ load_attempt = 0
    /\ otherRun = NoRun
    /\ forced = <<>>
    /\ last_generated = EmptyDict

\* No call of generate and no function application in progress.
CallIdle ==
    /\ gpc = "off"
    /\ attempt = 0
    /\ last_error = None
    /\ responses = <<>>
    /\ greturn = NoResult
    /\ fargs = NoArgs
    /\ fret = NoResult

\* ------------------------------------------------------------------------
\* Consensus evaluation alone: one call, cache off, every judge answer
\* ------------------------------------------------------------------------
AllGenerateResults == [j \in Range(JudgeModels) |-> GenerateResults(j)]
SmallGenerateResults == [j \in Range(JudgeModels) |-> GenerateResultsSmall(j)]

InitConsensus == EvalInit({"p1"}) /\ RunIdle /\ CallIdle

NextConsensus ==
    \/ EvaluateWithConsensus("p1", EvalArgs(FALSE))
    \/ CacheLookup("p1")
    \/ CheckModelsAvailability("p1", "any")
    \/ GatherJudgments("p1", AllGenerateResults)
    \/ Return("p1")

SpecConsensus == InitConsensus /\ [][NextConsensus]_vars

\* ------------------------------------------------------------------------
\* The judge cache under concurrent calls
\* ------------------------------------------------------------------------
InitCache == EvalInit(Evals) /\ RunIdle /\ CallIdle

NextCache ==
    \E e \in Evals :
        \/ EvaluateWithConsensus(e, EvalArgs(TRUE))
        \/ CacheLookup(e)
        \/ CheckModelsAvailability(e, "total")
        \/ GatherJudgments(e, SmallGenerateResults)
        \/ WriteTextOpen(e)
        \/ WriteTextData(e)
        \/ Return(e)

SpecCache == InitCache /\ [][NextCache]_vars

\* ------------------------------------------------------------------------
\* Properties of the consensus evaluation
\* ------------------------------------------------------------------------
\* A judge call succeeded: generate returned a text that is a JSON object.
JudgeSucceeded(g) == ~Truthy(g.error) /\ g.text.kind = "json_object"

\* The call has queried its judges and holds their consensus.
Gathered(e) == epc[e] \in {"save", "saving", "done"} /\ egen[e] # EmptyDict /\ ~ehit[e]

\* The available judges that succeeded, in the order they were queried.
SucceededJudges(e) == SelectSeq(eavail[e], LAMBDA j : JudgeSucceeded(egen[e][j]))

\* The successful judges that gave a number for a dimension, and the numbers
\* (on the 1..100 scale) they gave.
Reporting(e, key) ==
    SelectSeq(SucceededJudges(e),
              LAMBDA j : key \in DOMAIN egen[e][j].text.obj /\ IsNumber(egen[e][j].text.obj[key]))
Reported(e, key) ==
    [i \in DOMAIN Reporting(e, key) |-> Clamp(egen[e][Reporting(e, key)[i]].text.obj[key].v)]

\* C5: whatever subset of the judges fails (error payload, raised exception,
\* empty or unparsable answer), the evaluation completes; when some judge
\* succeeded, judge_count is the number of successful judges, the individual
\* judgments are theirs, and every aggregate is computed from exactly the
\* numbers the successful judges reported.
C5_FailureIsolation ==
    \A e \in Evals : Gathered(e) =>
        LET r == eresult[e]
            ok == SucceededJudges(e)
        IN IF ok = <<>> THEN "error" \in DOMAIN r
           ELSE /\ r.judge_count = Len(ok)
                /\ [i \in DOMAIN r.individual_judgments |-> r.individual_judgments[i].model_id] = ok
                /\ \A key \in DOMAIN r.aggregated_scores :
                     LET a == r.aggregated_scores[key]
                         vals == Reported(e, key)
                     IN /\ a.count = Len(vals)
                        /\ a.count > 0
                        /\ a.mean = <<SumSeq(vals), Len(vals)>>
                        /\ a.min = MinSeq(vals)
                        /\ a.max = MaxSeq(vals)
                /\ \A key \in ScoreKeys :
                     Reported(e, key) # <<>> => key \in DOMAIN r.aggregated_scores

\* A judge failed with an error payload, another raised, a third judge
\* succeeded with a number, and the evaluation completed.
C5_Witness ==
    \E e \in Evals :
        /\ Gathered(e) /\ epc[e] = "done"
        /\ \E j \in Range(eavail[e]) : Truthy(egen[e][j].error)
        /\ SucceededJudges(e) # <<>>
        /\ "judge_count" \in DOMAIN eresult[e]
        /\ eresult[e].judge_count = Len(SucceededJudges(e))
        /\ "quality" \in DOMAIN eresult[e].aggregated_scores

\* C6: total_judge_cost is the sum of the generation cost of every judge
\* call made for the evaluation, failed calls included.
C6_TotalJudgeCost ==
    \A e \in Evals : Gathered(e) =>
        eresult[e].total_judge_cost =
            SumSeq([i \in DOMAIN eavail[e] |-> IncurredCost(egen[e][eavail[e][i]])])

\* C7 as stated: zero successful judges for a non-empty output (every judge
\* unavailable or failed) gives error "All judge models failed" and no
\* aggregates.
ZeroJudgesSucceeded(e) ==
    /\ epc[e] = "done" /\ ~ehit[e]
    /\ ~IsBlank(eargs[e].output_text)
    /\ (eavail[e] = <<>> \/ SucceededJudges(e) = <<>>)

NoAggregates(r) ==
    /\ "aggregated_scores" \notin DOMAIN r
    /\ r.scores = <<>>
    /\ r.judgments = <<>>

C7_AllFailedMessage ==
    \A e \in Evals : ZeroJudgesSucceeded(e) =>
        /\ eresult[e].error = "All judge models failed"
        /\ NoAggregates(eresult[e])

\* C7 amended: zero successful judges for a non-empty output gives a result
\* without aggregates whose error is "All judge models failed" when some
\* judge was available and queried, and "No judge models available" when
\* none was.
C7_ZeroJudgesResult ==
    \A e \in Evals : ZeroJudgesSucceeded(e) =>
        /\ eresult[e].error = (IF eavail[e] = <<>> THEN "No judge models available"
                               ELSE "All judge models failed")
        /\ NoAggregates(eresult[e])

\* Every available judge was queried and failed.
C7_Witness ==
    \E e \in Evals :
        /\ ZeroJudgesSucceeded(e)
        /\ eavail[e] # <<>>
        /\ eresult[e].error = "All judge models failed"

\* ------------------------------------------------------------------------
\* Properties of the judge cache
\* ------------------------------------------------------------------------
\* json.dumps followed by json.loads gives back an equal ConsensusResult (its
\* keys are strings, its values floats, strings, lists and dicts), so a
\* complete file is modelled by the result it holds; what a reader can see
\* besides is the file its writer has truncated and not yet filled.

\* C2: once a result is stored for a (task_type, output, source) triple, a
\* later call with the same triple and use_cache on is answered from the
\* cache: it never gets to the availability check or to a judge call, and
\* what it returns is what it loaded.
C2_RoundTrip ==
    \A e \in Evals :
        (ehad[e] /\ eargs[e].use_cache) =>
            /\ epc[e] \in {"check", "done"}
            /\ epc[e] = "done" => ehit[e]

\* C3: the content stored under a key never changes: whenever the file of a
\* key is complete it holds what was first stored under that key.
C3_WriteOnce ==
    \A k \in DOMAIN stored :
        (k \in DOMAIN judgeCache /\ judgeCache[k].complete) => judgeCache[k].json = stored[k]

\* C4: no judgment in the judge_evaluation of a BenchmarkResult comes from
\* the model that generated the output, cache hits included.
C4_NoSelfJudging ==
    \A e \in Evals :
        (epc[e] = "done" /\ "individual_judgments" \in DOMAIN eresult[e]) =>
            \A i \in DOMAIN eresult[e].individual_judgments :
                eresult[e].individual_judgments[i].model_id # eargs[e].model_id

\* C9: no reader of the judge cache sees a file that is partially written.
C9_NoPartialRead == ~partialRead

\* ------------------------------------------------------------------------
\* One benchmark run, from the dispatch of its tasks to the saved metrics
\* ------------------------------------------------------------------------
\* The result cache holds nothing, or the result an earlier run saved for
\* the first model.
CachedEarlier ==
    BenchmarkResult(ModelOf(1), SummaryTask, TestCase,
                    [text |-> GoodSummary, cost |-> 3, error |-> None],
                    CHOOSE r \in JudgeResultsFor(JudgeModelsFor(ModelOf(1)), GoodSummary) :
                        "aggregated_scores" \in DOMAIN r)

InitRun ==
    /\ EvalInit({})
    /\ CallIdle
    /\ use_cache \in BOOLEAN
    /\ resultCache \in {EmptyDict,
                        [k \in {GetCacheKey(ModelOf(1), SummaryTask, TestCase)} |-> CachedEarlier]}
    /\ semaphore = ConcurrencyLimit
    /\ tpc = [t \in Tasks |-> "pending"]
    /\ toutput = [t \in Tasks |-> NoResult]
    /\ tresult = [t \in Tasks |-> NoResult]
    /\ doneQueue = <<>>
    /\ results = <<>>
    /\ rpc = "running"
    /\ corpus = Missing
    /\ tempFile = Missing
    /\ existing_results = <<>>
    /\ merged_results = <<>>
    /\ metrics = NoMetrics
    /\ finishOrder = <<>>
    /\ collected = <<>>
    /\ failed = {}
    /\ load_attempt = 0
    /\ otherRun = NoRun
    /\ forced = <<>>
    /\ last_generated = EmptyDict

NextRun ==
    \/ \E t \in Tasks : Acquire(t)
    \/ \E t \in Tasks : Generate(t)
    \/ \E t \in Tasks : Evaluate(t)
    \/ Collect
    \/ LoadExistingResults
    \/ WriteTemp
    \/ ReplaceTemp
    \/ SaveMetrics

SpecRun == InitRun /\ [][NextRun]_vars

\* The event loop keeps running while some task or the run itself can take
\* a step: a task waiting for the semaphore is woken when a holder leaves,
\* client.generate returns after its bounded retries, and the collection
\* loop and the save run to their end. No step can be repeated, so this is
\* all the progress of a task needs.
FairRun == WF_vars(NextRun)

SpecRunFair == InitRun /\ [][NextRun]_vars /\ FairRun

\* ------------------------------------------------------------------------
\* The save of a run, for any collected results and any corpus on disk
\* ------------------------------------------------------------------------
MaxResults == 2
MaxCorpus == 2


\* Records run_single_benchmark returns: results with and without scores,
\* error records, and the record of an unknown task (run_single_benchmark
\* 229-230), for a model id without and one with a ":".
CorpusModelIds == {"m1", "m1:free"}

CorpusRecords ==
    UNION { { BenchmarkResult(m, SummaryTask, TestCase,
                              [text |-> GoodSummary, cost |-> 3, error |-> None], jr) :
              jr \in JudgeResultsFor(JudgeModelsFor(m), GoodSummary) }
            \cup
            { ErrorRecord(m, SummaryTask, TestCase,
                          [text |-> EmptyOutput, cost |-> 0, error |-> "HTTP 500"]) } :
            m \in CorpusModelIds }
    \cup { [error |-> "Unknown task: x"] }

\* The identity key of a record.
Identity(r) ==
    <<Get(r, "model_id", None), Get(r, "task", <<>>), Get(r, "test_case_id", <<>>)>>

\* The corpus on disk was written by an earlier save: one record per key.
Corpora ==
    {Missing} \cup
    { File(c) : c \in { x \in SeqsUpTo(CorpusRecords, MaxCorpus) :
                          \A i, j \in DOMAIN x : Identity(x[i]) = Identity(x[j]) => i = j } }

InitCorpus ==
    /\ EvalInit({})
    /\ CallIdle
    /\ use_cache = FALSE
    /\ resultCache = EmptyDict
    /\ semaphore = ConcurrencyLimit
    /\ tpc = [t \in Tasks |-> "off"]
    /\ toutput = [t \in Tasks |-> NoResult]
    /\ tresult = [t \in Tasks |-> NoResult]
    /\ doneQueue = <<>>
    /\ results \in SeqsUpTo(CorpusRecords, MaxResults)
    /\ rpc = "load"
    /\ corpus \in Corpora
    /\ tempFile = Missing
    /\ existing_results = <<>>
    /\ merged_results = <<>>
    /\ metrics = NoMetrics
    /\ finishOrder = <<>>
    /\ collected = <<>>
    /\ failed = {}
    /\ load_attempt = 0
    /\ otherRun = NoRun
    /\ forced = <<>>
    /\ last_generated = EmptyDict

NextCorpus ==
    \/ LoadExistingResults
    \/ WriteTemp
    \/ ReplaceTemp
    \/ SaveMetrics

SpecCorpus == InitCorpus /\ [][NextCorpus]_vars

\* ------------------------------------------------------------------------
\* Properties of the run
\* ------------------------------------------------------------------------
\* The last record of a list with the given identity key.
Latest(rs, id) ==
    LET idx == {i \in DOMAIN rs : Identity(rs[i]) = id}
    IN rs[CHOOSE i \in idx : \A j \in idx : j <= i]

Saved == rpc \in {"metrics", "done"}

\* C1: after the save the corpus holds exactly one record per identity key
\* (model_id, task, test_case_id) of the existing and the new results, each
\* is the latest record supplied for its key, and merging the same results
\* again gives the same corpus.
C1_MergeLastWriteWins ==
    Saved =>
        LET supplied == existing_results \o results
            stored_corpus == corpus.data
        IN /\ corpus = File(merged_results)
           /\ \A i, j \in DOMAIN stored_corpus :
                Identity(stored_corpus[i]) = Identity(stored_corpus[j]) => i = j
           /\ {Identity(stored_corpus[i]) : i \in DOMAIN stored_corpus}
                = {Identity(supplied[i]) : i \in DOMAIN supplied}
           /\ \A i \in DOMAIN stored_corpus :
                stored_corpus[i] = Latest(supplied, Identity(stored_corpus[i]))
           /\ Merge(stored_corpus, results) = stored_corpus

\* A new result replaced the existing record of its key.
C1_Witness ==
    /\ Saved
    /\ \E i \in DOMAIN existing_results : \E j \in DOMAIN results :
         /\ Identity(existing_results[i]) = Identity(results[j])
         /\ existing_results[i] # results[j]
         /\ Get(existing_results[i], "model_id", None) = "m1:free"
    /\ Len(corpus.data) < Len(existing_results) + Len(results)

\* The tasks of a model, and those whose generation did not end in a
\* terminal error.
TasksOf(m) == {t \in Tasks : ModelOf(t) = m}
Generated(m) == TasksOf(m) \ failed

\* C8: a combination whose generation ended in a terminal error is recorded
\* with error set and enters no statistic: the metrics of a model count
\* exactly its combinations that did not fail, and a model all of whose
\* combinations failed has no metrics.
C8_FailedExcluded ==
    rpc = "done" =>
        /\ \A t \in failed : Truthy(Get(tresult[t], "error", None))
        /\ \A m \in Range(AvailableModels) :
             /\ m \in DOMAIN metrics.model_metrics <=> Generated(m) # {}
             /\ m \in DOMAIN metrics.model_metrics =>
                  metrics.model_metrics[m].test_count = Cardinality(Generated(m))
             /\ (m \in DOMAIN metrics.model_metrics_comprehensive
                 /\ metrics.model_metrics_comprehensive[m] # EmptyDict) =>
                  metrics.model_metrics_comprehensive[m].overall.test_count
                    = Cardinality(Generated(m))

\* The tasks inside the semaphore-guarded section.
InSection == {t \in Tasks : tpc[t] \in {"generating", "evaluating"}}

Occurrences(s, x) == Cardinality({i \in DOMAIN s : s[i] = x})

IsPrefix(s, t) == Len(s) <= Len(t) /\ \A i \in DOMAIN s : s[i] = t[i]

\* C10: at every moment at most concurrency_limit tasks are inside the
\* semaphore-guarded section; the collected results are the results of the
\* finished tasks in the order they finished, no task twice; and every
\* dispatched task ends up with exactly one result in the collected results.
C10_BoundedAndCollected ==
    /\ [](Cardinality(InSection) <= ConcurrencyLimit)
    /\ [](/\ IsPrefix(collected, finishOrder)
          /\ results = [i \in DOMAIN collected |-> tresult[collected[i]]]
          /\ \A t \in Tasks : Occurrences(collected, t) <= 1)
    /\ <>[](\A t \in Tasks : Occurrences(collected, t) = 1)

\* Every task has been collected, in an order that is not the order of
\* dispatch, after a task had to wait for the semaphore.
C10_Witness ==
    /\ Len(results) = NumModels
    /\ \E i, j \in DOMAIN collected : i < j /\ collected[i] > collected[j]
    /\ rpc = "done"

\* ---------------------------------------------------------------------------
\* ModelClient.generate (models/client.py 78-217)

\* The default of the max_retries parameter; no caller passes another value.
MaxRetries == 2

EmptyContentError == "Empty content returned from API (retrying)"

\* What one POST /chat/completions can end in: a response that passes
\* raise_for_status, with its text and its usage.completion_tokens; an
\* httpx.HTTPStatusError with its status code; any other exception (a network
\* failure, a timeout, a body that is not the expected JSON) with its str(e),
\* which is empty for some httpx timeouts.
ApiAnswers ==
    { [kind |-> "ok", text |-> t, completion_tokens |-> c] :
        t \in {<<>>, <<" ">>, <<"a">>}, c \in {0, 5} }
    \cup { [kind |-> "status", status_code |-> c] : c \in {400, 429, 500} }
    \cup { [kind |-> "exception", message |-> m] : m \in {"timeout", ""} }

\* f"HTTP {e.response.status_code}: {e.response.text}"
HttpError(status_code) ==
    CASE status_code = 400 -> "HTTP 400: "
      [] status_code = 429 -> "HTTP 429: "
      [] status_code = 500 -> "HTTP 500: "

\* client.py 183-194; the cost is _calculate_cost without pricing, 0.0
SuccessReturn(answer) ==
    [text |-> answer.text, completion_tokens |-> answer.completion_tokens,
     cost |-> 0, error |-> None]

\* client.py 210-217
ErrorReturn(error) ==
    [text |-> <<>>, completion_tokens |-> 0, cost |-> 0, error |-> error]

\* One iteration of `for attempt in range(max_retries + 1)`: the request and
\* the handling of its answer. `attempt` is the value the loop takes next; the
\* loop is over when it passes MaxRetries or a branch breaks.
Request(answer) ==
    /\ gpc = "loop"
    /\ attempt <= MaxRetries
    /\ responses' = Append(responses, answer)
    /\ CASE answer.kind = "ok" ->
              IF /\ IsBlank(answer.text)
                 /\ answer.completion_tokens > 0
                 /\ attempt < MaxRetries
              THEN /\ last_error' = EmptyContentError
                   /\ attempt' = attempt + 1
                   /\ UNCHANGED <<gpc, greturn>>
              ELSE /\ greturn' = SuccessReturn(answer)
                   /\ gpc' = "returned"
                   /\ UNCHANGED <<attempt, last_error>>
         [] answer.kind = "status" ->
              /\ last_error' = HttpError(answer.status_code)
              /\ IF answer.status_code = 429 \/ answer.status_code >= 500
                 THEN attempt' = attempt + 1 /\ UNCHANGED gpc
                 ELSE gpc' = "break" /\ UNCHANGED attempt
              /\ UNCHANGED greturn
         [] answer.kind = "exception" ->
              /\ last_error' = answer.message
              /\ IF attempt < MaxRetries
                 THEN attempt' = attempt + 1 /\ UNCHANGED gpc
                 ELSE gpc' = "break" /\ UNCHANGED attempt
              /\ UNCHANGED greturn
    /\ UNCHANGED <<fargs, fret>>
    /\ UNCHANGED <<evalVars, runVars>>

\* After the loop: the error return.
ReturnError ==
    /\ \/ gpc = "break"
       \/ gpc = "loop" /\ attempt > MaxRetries
    /\ greturn' = ErrorReturn(last_error)
    /\ gpc' = "returned"
    /\ UNCHANGED <<attempt, last_error, responses, fargs, fret>>
    /\ UNCHANGED <<evalVars, runVars>>

InitGenerate ==
    /\ EvalInit({})
    /\ RunIdle
    /\ gpc = "loop"
    /\ attempt = 0
    /\ last_error = None
    /\ responses = <<>>
    /\ greturn = NoResult
    /\ fargs = NoArgs
    /\ fret = NoResult

NextGenerate == (\E answer \in ApiAnswers : Request(answer)) \/ ReturnError

SpecGenerate == InitGenerate /\ [][NextGenerate]_vars

\* The failures the client retries: rate limit, server error, exception.
IsTransient(answer) ==
    \/ answer.kind = "status" /\ (answer.status_code = 429 \/ answer.status_code >= 500)
    \/ answer.kind = "exception"

\* The call ended in the error return: its last request did not succeed.
EndedInError ==
    /\ gpc = "returned"
    /\ responses[Len(responses)].kind # "ok"

\* C11: generate returns after at most max_retries + 1 requests; a call whose
\* last answer was a transient failure returns the terminal error (an error
\* that is set, an empty text, cost zero) and only once max_retries + 1
\* requests were made; a call that ends in a successful attempt returns
\* error None.
C11_BoundedRetries ==
    /\ Len(responses) <= MaxRetries + 1
    /\ gpc = "returned" =>
         IF EndedInError
         THEN /\ Truthy(greturn.error)
              /\ greturn.text = <<>>
              /\ greturn.cost = 0
              /\ IsTransient(responses[Len(responses)]) =>
                    Len(responses) = MaxRetries + 1
         ELSE greturn.error = None

\* ---------------------------------------------------------------------------
\* evaluate_reliability, applied to any task type, output text and parsed_json

MaxTextLen == 3

TextTokens == {"#", " ", "a", "$", "---", "FENCE", "DAMIT KANN MAN SICH GUT VORBEREITEN"}

\* Output texts: the token sequences up to MaxTextLen, none of which is a
\* JSON document, and the JSON documents.
ReliabilityTexts == SeqsUpTo(TextTokens, MaxTextLen) \cup JsonTexts

\* The three tasks and a task type evaluate_reliability has no branch for.
TaskTypes == {"summary", "quiz", "flashcards", "other"}

\* parsed_json: None, or what run_single_benchmark 266-279 parsed
ParsedJsonArgs ==
    {NoJson, JsonObject(<<>>),
     JsonObject([k \in {"questions"} |-> JsonArray(<<FullQuestion>>)])}

InitReliability ==
    /\ EvalInit({})
    /\ RunIdle
    /\ gpc = "off"
    /\ attempt = 0
    /\ last_error = None
    /\ responses = <<>>
    /\ greturn = NoResult
    /\ fargs \in [task_type : TaskTypes, output_text : ReliabilityTexts,
                  parsed_json : ParsedJsonArgs]
    /\ fret = NoResult

ApplyEvaluateReliability ==
    /\ fret = NoResult
    /\ fret' = EvaluateReliability(fargs.task_type, fargs.output_text, fargs.parsed_json)
    /\ UNCHANGED <<gpc, attempt, last_error, responses, greturn, fargs>>
    /\ UNCHANGED <<evalVars, runVars>>

NextReliability == ApplyEvaluateReliability

SpecReliability == InitReliability /\ [][NextReliability]_vars

\* C12: for every task type and output text the reliability_score returned
\* lies in [1,100]; for an empty or whitespace-only output it is exactly 1,
\* the only issue is "Empty output text" and the details hold the result of
\* no markdown, LaTeX or schema check.
C12_ReliabilityRange ==
    fret # NoResult =>
        /\ fret.reliability_score >= 1
        /\ fret.reliability_score <= 100
        /\ IsBlank(fargs.output_text) =>
              /\ fret.reliability_score = 1
              /\ fret.issues = << <<"Empty output text">> >>
              /\ DOMAIN fret.details \subseteq {"empty_output", "json_parseable", "parse_error"}

\* A whitespace-only quiz output has been evaluated.
C12_Witness ==
    /\ fret # NoResult
    /\ fargs.output_text = <<" ", " ">>
    /\ fargs.task_type = "quiz"
    /\ fret.reliability_score = 1

\* C13: for quiz and flashcards, with no parsed_json supplied and a non-empty
\* output text that is no JSON document, the score is exactly 1 and the
\* issues are exactly the one parse error; no schema issue, no LaTeX issue
\* and no penalty is added.
C13_ParseErrorOnly ==
    ( /\ fret # NoResult
      /\ fargs.task_type \in {"quiz", "flashcards"}
      /\ fargs.parsed_json = NoJson
      /\ ~IsBlank(fargs.output_text)
      /\ fargs.output_text \notin JsonTexts )
    => /\ fret.reliability_score = 1
       /\ fret.issues = << <<"JSON parse error: ", JSONDecodeError.v>> >>
       /\ fret.details.json_parseable = FALSE

\* A flashcards output that is no JSON and holds an unpaired "$" has been
\* evaluated without parsed_json.
C13_Witness ==
    /\ fret # NoResult
    /\ fargs.task_type = "flashcards"
    /\ fargs.parsed_json = NoJson
    /\ fargs.output_text = <<"a", "$">>
    /\ Len(fret.issues) = 1

\* ---------------------------------------------------------------------------
\* run_single_benchmark from the call of evaluate_with_consensus on: the
\* evaluation of one output, then the BenchmarkResult built from it.

\* The cost of the generation whose output is evaluated.
GenerationCost == 3

\* run_single_benchmark 300-337, after evaluate_with_consensus returned
BuildResult(e) ==
    /\ epc[e] = "done"
    /\ fret = NoResult
    /\ fargs' = [text |-> eargs[e].output_text, cost |-> GenerationCost, error |-> None]
    /\ fret' = BenchmarkResult(eargs[e].model_id, eargs[e].task_type, TestCase, fargs',
                               eresult[e])
    /\ epc' = [epc EXCEPT ![e] = "off"]
    /\ UNCHANGED <<eargs, ehash, eavail, egen, eresult, judgeCache, stored, ehad, ehit,
                   partialRead>>
    /\ UNCHANGED <<gpc, attempt, last_error, responses, greturn>>
    /\ UNCHANGED runVars

InitResult == InitConsensus

NextResult ==
    \/ EvaluateWithConsensus("p1", EvalArgs(FALSE))
    \/ CacheLookup("p1")
    \/ CheckModelsAvailability("p1", "any")
    \/ GatherJudgments("p1", AllGenerateResults)
    \/ BuildResult("p1")

SpecResult == InitResult /\ [][NextResult]_vars

\* 1 <= a/b <= 100 for a fraction <<a, b>> with b > 0
RatInScale(q) == q[2] > 0 /\ q[1] >= q[2] /\ q[1] <= 100 * q[2]

InScale(x) == x >= 1 /\ x <= 100

\* C14: in every BenchmarkResult built, reliability_score,
\* content_quality_score and the mean, median, min and max of every
\* aggregated judge dimension lie in [1,100], whatever numbers the judges
\* answered with and whichever judges failed.
C14_NoZeroScore ==
    fret # NoResult =>
        /\ InScale(fret.reliability_score)
        /\ RatInScale(fret.content_quality_score)
        /\ LET aggregated == Get(fret.judge_evaluation, "aggregated_scores", EmptyDict)
           IN  \A key \in DOMAIN aggregated :
                   /\ RatInScale(aggregated[key].mean)
                   /\ InScale(aggregated[key].median)
                   /\ InScale(aggregated[key].min)
                   /\ InScale(aggregated[key].max)

\* A result was built from an evaluation in which one judge answered 0 for a
\* dimension, another judge failed, and the dimension was aggregated.
C14_Witness ==
    /\ fret # NoResult
    /\ \E j \in Range(eavail["p1"]) :
          /\ ~Truthy(egen["p1"][j].error)
          /\ egen["p1"][j].text.kind = "json_object"
          /\ "quality" \in DOMAIN egen["p1"][j].text.obj
          /\ egen["p1"][j].text.obj["quality"] = JsonNum(0)
    /\ \E j \in Range(eavail["p1"]) : Truthy(egen["p1"][j].error)
    /\ "aggregated_scores" \in DOMAIN fret.judge_evaluation
    /\ "quality" \in DOMAIN fret.judge_evaluation.aggregated_scores
    /\ fret.judge_evaluation.aggregated_scores["quality"].min = 1

\* ---------------------------------------------------------------------------
\* aggregate_model_metrics, applied to any list of stored results and config

\* The result lists hold at most MaxSamples results.
MaxSamples == 2

\* aggregated_scores with the same mean under each of the keys
Agg(keys, v) == [k \in keys |-> [mean |-> Rat(v)]]

\* aggregated_scores as stored in a result: the generic quality key at the
\* edge of the legacy scale, above it and at the top of the scale; the
\* legacy dimensions without a quality key; both task-specific quality keys;
\* quality and all six universal dimensions. NoJson stands for a
\* judge_evaluation without aggregated_scores (every judge failed).
StoredAggregates ==
    { Agg({"quality"}, 10), Agg({"quality"}, 11), Agg({"quality"}, 100),
      Agg({"factual_accuracy", "completeness"}, 100),
      Agg({"question_quality"}, 10) @@ Agg({"clarity"}, 100),
      Agg({"quality"} \cup Range(EVALUATION_DIMENSIONS), 100) }

\* Stored reliability scores: a legacy 0, the floor, the edge of the legacy
\* scale and the top.
StoredReliability == {0, 1, 10, 100}

ResultCost == 2
ResultLatency == 7

\* A stored BenchmarkResult with the fields aggregate_model_metrics reads;
\* content_quality_score is what run_single_benchmark 300-311 computed.
StoredResult(reliability, judge_evaluation) ==
    [model_id |-> "m1",
     reliability_score |-> reliability,
     content_quality_score |-> ContentQualityScore(judge_evaluation),
     judge_evaluation |-> judge_evaluation,
     cost |-> ResultCost,
     latency_ms |-> ResultLatency]

StoredResults ==
    { StoredResult(r, j) :
        r \in StoredReliability,
        j \in {AllJudgesFailedResult(0)} \cup {[aggregated_scores |-> a] : a \in StoredAggregates} }

\* config: None, or weights in hundredths that sum to 1
Configs ==
    {NoConfig, [reliability_weight |-> 40, quality_weight |-> 60],
     [reliability_weight |-> 0, quality_weight |-> 100]}

InitMetrics ==
    /\ EvalInit({})
    /\ RunIdle
    /\ gpc = "off"
    /\ attempt = 0
    /\ last_error = None
    /\ responses = <<>>
    /\ greturn = NoResult
    /\ fargs \in [results : SeqsUpTo(StoredResults, MaxSamples), config : Configs]
    /\ fret = NoResult

ApplyAggregateModelMetrics ==
    /\ fret = NoResult
    /\ fret' = AggregateModelMetrics(fargs.results, fargs.config)
    /\ UNCHANGED <<gpc, attempt, last_error, responses, greturn, fargs>>
    /\ UNCHANGED <<evalVars, runVars>>

NextMetrics == ApplyAggregateModelMetrics

SpecMetrics == InitMetrics /\ [][NextMetrics]_vars

\* aggregate_model_metrics returned metrics for a non-empty list
Aggregated == fret # NoResult /\ fargs.results # <<>>

\* The score series of the arguments, as collected and before any scaling.
RawSeries ==
    LET c == CollectedScores(fargs.results)
    IN  [dim \in Range(EVALUATION_DIMENSIONS) |-> c.evaluation[dim]] @@
        [reliability |-> c.reliability, content_quality |-> c.quality_overall]

\* 10 when some score of the series is positive and every positive score
\* of the series lies in (0,10], else 1
ExpectedFactor(raw) ==
    LET values == UNION {Range(raw[k]) : k \in DOMAIN raw}
    IN  IF /\ \E v \in values : RatLess(Rat(0), v)
           /\ \A v \in values : RatLess(Rat(0), v) => RatLeq(v, Rat(10))
        THEN 10 ELSE 1

\* The statistics of series k are those of its raw series times factor.
ScaledBy(factor, raw, k) ==
    raw[k] # <<>> =>
        /\ RatEq(fret[k].mean, RatMul(Rat(factor), RatMean(raw[k])))
        /\ RatEq(fret[k].min, RatMul(Rat(factor), RatMin(raw[k])))
        /\ RatEq(fret[k].max, RatMul(Rat(factor), RatMax(raw[k])))

\* C15: every score series is multiplied by 10 exactly when at least one
\* collected score is positive and every positive collected score lies in
\* (0,10], and left as it is otherwise, in particular when a collected score
\* exceeds 10; cost and latency are never scaled.
C15_LegacyUpscale ==
    Aggregated =>
        /\ With(LAMBDA raw :
                  With(LAMBDA factor : \A k \in DOMAIN raw : ScaledBy(factor, raw, k),
                       ExpectedFactor(raw)),
                RawSeries)
        /\ RatEq(fret.cost.total, Rat(ResultCost * Len(fargs.results)))
        /\ RatEq(fret.cost.mean, Rat(ResultCost))
        /\ RatEq(fret.latency.mean, Rat(ResultLatency))

\* Two results on the legacy scale (reliability 1 and 10, quality 10) were
\* aggregated and the reliability series came out multiplied by 10.
C15_Witness ==
    /\ Aggregated
    /\ Len(fargs.results) = 2
    /\ fargs.results[1].reliability_score = 1
    /\ fargs.results[2].reliability_score = 10
    /\ \A i \in 1..2 : fargs.results[i].judge_evaluation = [aggregated_scores |-> Agg({"quality"}, 10)]
    /\ fret["reliability"].min = Rat(10)
    /\ fret["reliability"].max = Rat(100)
    /\ fret.cost.total = Rat(2 * ResultCost)

\* Every stored score of the result lies in [1,100].
StoredInScale(r) ==
    /\ InScale(r.reliability_score)
    /\ RatInScale(r.content_quality_score)
    /\ \A k \in DOMAIN AggregatedOf(r) : RatInScale(AggregatedOf(r)[k].mean)

\* C16: for a non-empty list of results whose stored scores lie in [1,100]
\* and non-negative weights that sum to 1, combined_score is reliability.mean
\* x reliability_weight + content_quality.mean x quality_weight and lies in
\* [1,100].
C16_CombinedScore ==
    ( /\ Aggregated
      /\ \A i \in DOMAIN fargs.results : StoredInScale(fargs.results[i]) )
    => LET rw == ConfigWeight(fargs.config, "reliability_weight", 30)
           qw == ConfigWeight(fargs.config, "quality_weight", 70)
       IN  /\ rw >= 0 /\ qw >= 0 /\ rw + qw = 100
           /\ RatEq(fret.combined_score,
                    RatPlus(RatMul(fret["reliability"].mean, <<rw, 100>>),
                            RatMul(fret["content_quality"].mean, <<qw, 100>>)))
           /\ RatInScale(fret.combined_score)

\* C17: in universal_weighted_score each of the five weighted dimensions for
\* which no result carries a score contributes 50 times its weight; the
\* score is the clamped sum of weight x mean over the dimensions with a
\* score and weight x 50 over those without.
C17_NeutralMidpoint ==
    Aggregated =>
        RatEq(fret.universal_weighted_score,
              RatClamp(RatSum([i \in DOMAIN WeightedDimensions |->
                                 LET dim == WeightedDimensions[i]
                                 IN  RatMul(IF \E j \in DOMAIN fargs.results :
                                                  dim \in DOMAIN AggregatedOf(fargs.results[j])
                                            THEN fret[dim].mean
                                            ELSE Rat(50),
                                            <<UniversalWeights[dim], 100>>)])))

\* None of the keys quality, question_quality, clarity is in the result's
\* aggregated_scores.
NoQualityKey(r) == DOMAIN AggregatedOf(r) \cap {"quality", "question_quality", "clarity"} = {}

\* The quality series with content_quality_score in the place of a result
\* that has no quality key.
QualityWithFallback ==
    Flatten([i \in DOMAIN fargs.results |->
               IF NoQualityKey(fargs.results[i])
               THEN <<fargs.results[i].content_quality_score>>
               ELSE QualitySample(fargs.results[i])])

\* C18: a result whose aggregated_scores has none of the keys quality,
\* question_quality, clarity adds its content_quality_score to the quality
\* series, so content_quality.mean is the mean of the series with these
\* samples (stated for lists the legacy upscale does not apply to: a
\* reliability score exceeds 10).
C18_QualityFallback ==
    ( /\ Aggregated
      /\ \E i \in DOMAIN fargs.results : fargs.results[i].reliability_score > 10
      /\ \E i \in DOMAIN fargs.results : NoQualityKey(fargs.results[i]) )
    => RatEq(fret["content_quality"].mean, RatMean(QualityWithFallback))

\* ------------------------------------------------------------------------
\* scripts/analyze_significance.py: paired comparisons
\* ------------------------------------------------------------------------
RatNeg(a) == <<-a[1], a[2]>>
RatSub(a, b) == RatPlus(a, RatNeg(b))
\* a / b for b > 0
RatDiv(a, b) == RatMul(a, <<b[2], b[1]>>)
RatSign(a) == IF a[1] > 0 THEN 1 ELSE IF a[1] < 0 THEN -1 ELSE 0

\* A float that a comparison computes, kept exactly: rat + sign * sqrt(root)
\* for fractions rat and root >= 0, or float('inf').
Real(rat, sign, root) == [inf |-> FALSE, rat |-> rat, sign |-> sign, root |-> root]
Infinity == [inf |-> TRUE, rat |-> Rat(0), sign |-> 1, root |-> Rat(0)]
Zero == Real(Rat(0), 0, Rat(0))

\* x > 0 and x < 0
IsPositive(x) ==
    \/ x.inf
    \/ /\ ~x.inf
       /\ With(LAMBDA sq : CASE x.sign = 0 -> x.rat[1] > 0
                             [] x.sign = 1 -> x.rat[1] > 0 \/ RatLess(sq, x.root)
                             [] OTHER -> x.rat[1] > 0 /\ RatLess(x.root, sq),
               RatMul(x.rat, x.rat))
Negated(x) == [x EXCEPT !.rat = RatNeg(x.rat), !.sign = -x.sign]
IsNegative(x) == ~x.inf /\ IsPositive(Negated(x))
Shifted(x, q) == [x EXCEPT !.rat = RatPlus(x.rat, q)]

\* abs(x) >= q
AbsAtLeast(x, q) ==
    \/ x.inf
    \/ ~IsNegative(Shifted(x, RatNeg(q)))
    \/ ~IsPositive(Shifted(x, q))

\* statistics.mean and statistics.variance of a series of integers; mean
\* raises StatisticsError on an empty series and stdev on fewer than two
\* points.
StatisticsError == [raised |-> "StatisticsError"]
MeanRaises(xs) == Len(xs) = 0
StdevRaises(xs) == Len(xs) < 2
StatMean(xs) == Norm(<<SumSeq(xs), Len(xs)>>)
StatVariance(xs) ==
    With(LAMBDA n : With(LAMBDA total :
             Norm(<<n * SumSqSeq(xs) - total * total, n * (n - 1)>>),
             SumSeq(xs)),
         Len(xs))

\* t_critical with the normal approximation from 30 degrees of freedom on
t_critical_from_thirty(confidence, df) ==
    IF df >= 30
    THEN IF confidence = <<19, 20>> THEN <<49, 25>>
         ELSE IF confidence = <<99, 100>> THEN <<322, 125>>
         ELSE RatPlus(<<49, 25>>, RatMul(RatSub(confidence, <<19, 20>>), Rat(4)))
    ELSE IF df <= 10 THEN <<23, 10>>
         ELSE IF df <= 20 THEN <<21, 10>>
         ELSE Rat(2)

\* t_critical 99-124, the confidence a fraction
t_critical(confidence, df) ==
    IF df > 30
    THEN IF confidence = <<19, 20>> THEN <<49, 25>>
         ELSE IF confidence = <<99, 100>> THEN <<322, 125>>
         ELSE RatPlus(<<49, 25>>, RatMul(RatSub(confidence, <<19, 20>>), Rat(4)))
    ELSE IF df <= 10 THEN <<23, 10>>
         ELSE IF df <= 20 THEN <<21, 10>>
         ELSE Rat(2)

DefaultConfidence == <<19, 20>>

\* [a - b for a, b in zip(values_a, values_b)]
Diffs(values_a, values_b) ==
    [i \in 1..Min2(Len(values_a), Len(values_b)) |-> values_a[i] - values_b[i]]

\* cohens_d 161-176
cohens_d(values_a, values_b) ==
    IF Len(values_a) # Len(values_b) \/ Len(values_a) = 0 THEN Zero
    ELSE LET diffs == Diffs(values_a, values_b)
             mean_diff == StatMean(diffs)
         IN  IF Len(diffs) = 1 THEN Zero
             ELSE With(LAMBDA variance :
                     IF variance[1] = 0
                     THEN IF mean_diff[1] # 0 THEN Infinity ELSE Zero
                     ELSE Real(Rat(0), RatSign(mean_diff),
                               RatDiv(RatMul(mean_diff, mean_diff), variance)),
                     StatVariance(diffs))

\* is_significant = excludes_zero and abs(d) >= 0.2, with the interval alone
IsSignificantByInterval(excludes_zero, d) == excludes_zero

\* paired_comparison 218-219
IsSignificant(excludes_zero, d) == excludes_zero /\ AbsAtLeast(d, <<1, 5>>)

\* paired_comparison 179-231
paired_comparison(model_a, model_b, metric, values_a, values_b, confidence) ==
    IF Len(values_a) # Len(values_b) \/ Len(values_a) = 0
    THEN [model_a |-> model_a, model_b |-> model_b, metric |-> metric,
          mean_diff |-> Rat(0), ci |-> [lower |-> Zero, upper |-> Zero],
          cohens_d |-> Zero, is_significant |-> FALSE, common_n |-> 0]
    ELSE IF \/ MeanRaises(Diffs(values_a, values_b))
            \/ Len(values_a) # 1 /\ StdevRaises(Diffs(values_a, values_b))
    THEN StatisticsError
    ELSE LET diffs == Diffs(values_a, values_b)
             n == Len(diffs)
             mean_diff == StatMean(diffs)
             variance == IF n = 1 THEN Rat(0) ELSE StatVariance(diffs)
             t_crit == t_critical(confidence, n - 1)
             \* margin * margin = t_crit^2 * std_diff^2 / n
             margin_sq == RatDiv(RatMul(RatMul(t_crit, t_crit), variance), Rat(n))
             d == cohens_d(values_a, values_b)
             ci_lower == Real(mean_diff, -1, margin_sq)
             ci_upper == Real(mean_diff, 1, margin_sq)
             excludes_zero == IsPositive(ci_lower) \/ IsNegative(ci_upper)
         IN  [model_a |-> model_a, model_b |-> model_b, metric |-> metric,
              mean_diff |-> mean_diff,
              ci |-> [lower |-> ci_lower, upper |-> ci_upper],
              cohens_d |-> d,
              is_significant |-> IsSignificant(excludes_zero, d),
              common_n |-> n]

\* the elements of a set in the order its iteration gives
RECURSIVE SetToSeq(_)
SetToSeq(S) ==
    IF S = {} THEN <<>>
    ELSE With(LAMBDA x : <<x>> \o SetToSeq(S \ {x}), CHOOSE x \in S : TRUE)

\* compare_all_models 292-301: by_model_case[model], keyed by
\* f"{case_id}:{task}", the last record of a key winning
RECURSIVE ByModelCase(_, _, _)
ByModelCase(all_results, model, metric) ==
    IF all_results = <<>> THEN <<>>
    ELSE With(LAMBDA earlier :
            With(LAMBDA r :
                IF Truthy(r.error) \/ r.model_id # model THEN earlier
                ELSE [k \in DOMAIN earlier \cup {<<r.test_case_id, r.task>>} |->
                        IF k = <<r.test_case_id, r.task>> THEN r[metric]
                        ELSE earlier[k]],
                all_results[Len(all_results)]),
            ByModelCase(SubSeq(all_results, 1, Len(all_results) - 1), model, metric))

\* compare_all_models 284-318
RECURSIVE ComparePairs(_, _, _)
ComparePairs(by_model_case, pairs, metric) ==
    IF pairs = <<>> THEN <<>>
    ELSE LET model_a == Head(pairs)[1]
             model_b == Head(pairs)[2]
             common_cases == SetToSeq(DOMAIN by_model_case[model_a]
                                        \cap DOMAIN by_model_case[model_b])
             values_a == [i \in DOMAIN common_cases |->
                             by_model_case[model_a][common_cases[i]]]
             values_b == [i \in DOMAIN common_cases |->
                             by_model_case[model_b][common_cases[i]]]
             rest == ComparePairs(by_model_case, Tail(pairs), metric)
         IN  IF Len(common_cases) < 2 THEN rest
             ELSE <<paired_comparison(model_a, model_b, metric, values_a,
                                      values_b, DefaultConfidence)>> \o rest

\* for i, model_a in enumerate(models): for model_b in models[i+1:]
RECURSIVE ModelPairs(_)
ModelPairs(models) ==
    IF models = <<>> THEN <<>>
    ELSE [i \in 1..(Len(models) - 1) |-> <<models[1], models[i + 1]>>]
         \o ModelPairs(Tail(models))

compare_all_models(all_results, models, metric) ==
    With(LAMBDA by_model_case : ComparePairs(by_model_case, ModelPairs(models), metric),
         [m \in Range(models) |-> ByModelCase(all_results, m, metric)])

\* ------------------------------------------------------------------------
\* Specification: paired comparisons over bounded series
\* ------------------------------------------------------------------------
MaxCases == 3
LongRun == 50

\* per-case scores of the compared metric
CaseScores == {0, 4, 6}

\* reps copies of a pattern, one after the other
Tiled(pattern, reps) ==
    [i \in 1..(Len(pattern) * reps) |-> pattern[((i - 1) % Len(pattern)) + 1]]

ShortSeries == SeqsUpTo(CaseScores, MaxCases)
LongSeries == {Tiled(p, LongRun) : p \in [1..2 -> CaseScores]}

PairedArgs ==
    [kind : {"paired"}, values_a : ShortSeries, values_b : ShortSeries]
    \cup [kind : {"paired"}, values_a : LongSeries, values_b : LongSeries]

\* the record of a model on a case: none, one that failed, one with a score
MaxCommonCases == 2
ComparedModels == <<"a", "b">>
CaseOutcomes == {"absent", "error", "", "low", "high"}
OutcomeScore(o) == IF o = "high" THEN 6 ELSE 0

RECURSIVE GridResults(_, _)
GridResults(grid, slots) ==
    IF slots = <<>> THEN <<>>
    ELSE LET slot == Head(slots)
             o == grid[slot]
             rest == GridResults(grid, Tail(slots))
         IN  IF o = "absent" THEN rest
             ELSE <<[model_id |-> slot[1], test_case_id |-> slot[2],
                     task |-> "summary",
                     error |-> IF o = "error" THEN "timeout"
                               ELSE IF o = "" THEN "" ELSE None,
                     content_quality_score |-> OutcomeScore(o)]>> \o rest

CaseSlots == SetToSeq(Range(ComparedModels) \X (1..MaxCommonCases))

CompareArgs ==
    {[kind |-> "compare", results |-> GridResults(g, CaseSlots),
      models |-> ComparedModels]
        : g \in [Range(CaseSlots) -> CaseOutcomes]}

InitSignificance ==
    /\ EvalInit({}) /\ RunIdle
    /\ gpc = "off" /\ attempt = 0 /\ last_error = None /\ responses = <<>>
    /\ greturn = NoResult
    /\ fargs \in PairedArgs \cup CompareArgs
    /\ fret = NoResult

ApplyPairedComparison ==
    /\ fret = NoResult
    /\ fargs.kind = "paired"
    /\ fret' = paired_comparison("a", "b", "content_quality_score",
                                 fargs.values_a, fargs.values_b, DefaultConfidence)
    /\ UNCHANGED <<gpc, attempt, last_error, responses, greturn, fargs>>
    /\ UNCHANGED <<evalVars, runVars>>

ApplyCompareAllModels ==
    /\ fret = NoResult
    /\ fargs.kind = "compare"
    /\ fret' = [comparisons |-> compare_all_models(fargs.results, fargs.models,
                                                   "content_quality_score")]
    /\ UNCHANGED <<gpc, attempt, last_error, responses, greturn, fargs>>
    /\ UNCHANGED <<evalVars, runVars>>

NextSignificance == ApplyPairedComparison \/ ApplyCompareAllModels

SpecSignificance == InitSignificance /\ [][NextSignificance]_vars

\* the interval of a comparison record excludes zero
ExcludesZero(ci) == IsPositive(ci.lower) \/ IsNegative(ci.upper)

\* the record is marked exactly when its interval excludes zero and its
\* effect size is at least 0.2, and never over fewer than two cases
MarkedAsStated(comp) ==
    /\ "is_significant" \in DOMAIN comp
    /\ comp.is_significant <=> (ExcludesZero(comp.ci) /\ AbsAtLeast(comp.cohens_d, <<1, 5>>))
    /\ comp.common_n <= 1 => ~comp.is_significant

\* the cases the two models of a compare_all_models call share
CommonCases(rs) ==
    {c \in 1..MaxCommonCases :
        \A m \in Range(ComparedModels) :
            \E i \in DOMAIN rs :
                /\ rs[i].model_id = m /\ rs[i].test_case_id = c
                /\ ~Truthy(rs[i].error)}

EmptyMetric == [mean |-> 0, ci |-> [lower |-> 0, upper |-> 0]]

\* metrics.get(metric, compute_ci([]))
MetricOf(model_entry, metric) ==
    IF metric \in DOMAIN model_entry THEN model_entry[metric] ELSE EmptyMetric

\* sorted(..., key=mean, reverse=True): stable, entries of equal mean keep
\* the order of the dict
RECURSIVE SortedByMean(_, _)
SortedByMean(items, metric) ==
    IF items = <<>> THEN <<>>
    ELSE With(LAMBDA rest :
            LET x == Head(items)
                key(item) == MetricOf(item[2], metric).mean
                ahead == Cardinality({i \in DOMAIN rest : key(rest[i]) > key(x)})
            IN  SubSeq(rest, 1, ahead) \o <<x>> \o SubSeq(rest, ahead + 1, Len(rest)),
            SortedByMean(Tail(items), metric))

\* generate_ranking_with_significance 343-348 and 354-359: the first record
\* of the pair, in either order, decides
RECURSIVE TieByComparison(_, _, _)
TieByComparison(comparisons, model_id, other) ==
    IF comparisons = <<>> THEN FALSE
    ELSE LET comp == Head(comparisons)
         IN  IF \/ comp.model_a = model_id /\ comp.model_b = other
                \/ comp.model_a = other /\ comp.model_b = model_id
             THEN ~comp.is_significant
             ELSE TieByComparison(Tail(comparisons), model_id, other)

\* generate_ranking_with_significance 333-374: the rows from position i on,
\* after the rows built so far
RECURSIVE RankingRows(_, _, _, _, _)
RankingRows(sorted_models, comparisons, metric, i, rankings) ==
    IF i > Len(sorted_models) THEN rankings
    ELSE LET model_id == sorted_models[i][1]
             m == MetricOf(sorted_models[i][2], metric)
             is_tie_with_next ==
                 /\ i < Len(sorted_models)
                 /\ TieByComparison(comparisons, model_id, sorted_models[i + 1][1])
             is_tie_with_prev ==
                 /\ i > 1
                 /\ TieByComparison(comparisons, model_id, sorted_models[i - 1][1])
             rank == IF is_tie_with_prev /\ rankings # <<>>
                     THEN rankings[Len(rankings)].rank ELSE i
         IN  RankingRows(sorted_models, comparisons, metric, i + 1,
                 Append(rankings,
                     [rank |-> rank,
                      model_id |-> model_id,
                      score |-> [mean |-> m.mean, ci_95_lower |-> m.ci.lower,
                                 ci_95_upper |-> m.ci.upper],
                      is_tie |-> is_tie_with_next \/ is_tie_with_prev,
                      display_rank |-> <<rank, IF is_tie_with_next THEN "=" ELSE "">>]))

\* generate_ranking_with_significance 321-374
generate_ranking_with_significance(model_metrics, comparisons, metric) ==
    With(LAMBDA sorted_models : RankingRows(sorted_models, comparisons, metric, 1, <<>>),
         SortedByMean(model_metrics, metric))

\* ConfidenceInterval.overlaps 42-44
Overlaps(a, b) == ~(a.upper < b.lower \/ b.upper < a.lower)

\* ------------------------------------------------------------------------
\* Specification: rankings over bounded metrics and comparison records
\* ------------------------------------------------------------------------
MaxRanked == 3

RankedModels == [i \in 1..MaxRanked |-> i]

\* compute_ci 127-158: a mean with a symmetric interval around it
MetricsWithCI ==
    {[mean |-> mean, ci |-> [lower |-> mean - margin, upper |-> mean + margin]]
        : mean \in {50, 60, 70}, margin \in {0, 10}}

\* what compare_all_models left for a pair: no record, or one record
PairRecords == {"none", "significant", "not significant"}

RECURSIVE RecordsOf(_, _)
RecordsOf(pairs, choice) ==
    IF pairs = <<>> THEN <<>>
    ELSE LET pair == Head(pairs)
             rest == RecordsOf(Tail(pairs), choice)
         IN  IF choice[pair] = "none" THEN rest
             ELSE <<[model_a |-> pair[1], model_b |-> pair[2],
                     is_significant |-> choice[pair] = "significant"]>> \o rest

RankingArgs ==
    {[model_metrics |-> [i \in 1..MaxRanked |-> <<i, [content_quality |-> ms[i]]>>],
      comparisons |-> RecordsOf(ModelPairs(RankedModels), choice)]
        : ms \in [1..MaxRanked -> MetricsWithCI],
          choice \in [Range(ModelPairs(RankedModels)) -> PairRecords]}

InitRanking ==
    /\ EvalInit({}) /\ RunIdle
    /\ gpc = "off" /\ attempt = 0 /\ last_error = None /\ responses = <<>>
    /\ greturn = NoResult
    /\ fargs \in RankingArgs
    /\ fret = NoResult

ApplyGenerateRanking ==
    /\ fret = NoResult
    /\ fret' = [rankings |-> generate_ranking_with_significance(
                                 fargs.model_metrics, fargs.comparisons,
                                 "content_quality")]
    /\ UNCHANGED <<gpc, attempt, last_error, responses, greturn, fargs>>
    /\ UNCHANGED <<evalVars, runVars>>

NextRanking == ApplyGenerateRanking

SpecRanking == InitRanking /\ [][NextRanking]_vars

\* the interval a ranking row reports
RowInterval(row) == [lower |-> row.score.ci_95_lower, upper |-> row.score.ci_95_upper]

\* C20: in the ranking output, two models adjacent in the ranking whose 95%
\* confidence intervals on the ranked metric overlap are both flagged as a
\* tie, whether or not a comparison record exists for the pair.
C20_OverlapTie ==
    fret # NoResult =>
        \A i \in 1..(Len(fret.rankings) - 1) :
            Overlaps(RowInterval(fret.rankings[i]), RowInterval(fret.rankings[i + 1]))
                => fret.rankings[i].is_tie /\ fret.rankings[i + 1].is_tie

\* ------------------------------------------------------------------------
\* evaluators/metrics.py: comparative metrics
\* ------------------------------------------------------------------------
\* float('inf') among the fractions: RatLess and RatLeq order it above all
RatInf == <<1, 0>>

\* sorted(models, key=..., reverse=...): stable, models of equal key keep the
\* order of the dict; key maps a model to a fraction
RECURSIVE SortedByKey(_, _, _)
SortedByKey(models, key, reverse) ==
    IF models = <<>> THEN <<>>
    ELSE With(LAMBDA rest :
            LET x == Head(models)
                ahead == Cardinality({i \in DOMAIN rest :
                            IF reverse THEN RatLess(key[x], key[rest[i]])
                            ELSE RatLess(key[rest[i]], key[x])})
            IN  SubSeq(rest, 1, ahead) \o <<x>> \o SubSeq(rest, ahead + 1, Len(rest)),
            SortedByKey(Tail(models), key, reverse))

\* all_model_metrics[m].get(field, default) and
\* all_model_metrics[m].get(field, {}).get(inner, default)
MetricField(model_entry, field, default) ==
    IF field \in DOMAIN model_entry THEN model_entry[field] ELSE default
MetricInner(model_entry, field, inner, default) ==
    IF field \in DOMAIN model_entry /\ inner \in DOMAIN model_entry[field]
    THEN model_entry[field][inner] ELSE default

\* calculate_comparative_metrics 425-432
ValueScore(model_entry) ==
    LET combined == MetricField(model_entry, "combined_score", Rat(0))
        total_cost == MetricInner(model_entry, "cost", "total", Rat(0))
    IN  IF total_cost[1] > 0 THEN RatDiv(combined, total_cost)
        ELSE IF combined[1] > 0 THEN RatInf ELSE Rat(0)

\* calculate_comparative_metrics 368-444; all_model_metrics is the sequence
\* of the dict's <<model_id, metrics>> items
calculate_comparative_metrics(all_model_metrics) ==
    IF all_model_metrics = <<>> THEN EmptyDict
    ELSE LET models == [i \in DOMAIN all_model_metrics |-> all_model_metrics[i][1]]
             entry == [m \in Range(models) |->
                         (CHOOSE item \in Range(all_model_metrics) : item[1] = m)[2]]
             by_inner(field, inner, reverse) ==
                 SortedByKey(models,
                     [m \in Range(models) |-> MetricInner(entry[m], field, inner, Rat(0))],
                     reverse)
             by_field(field, default, reverse) ==
                 SortedByKey(models,
                     [m \in Range(models) |-> MetricField(entry[m], field, default)],
                     reverse)
             value_scores == [m \in Range(models) |-> ValueScore(entry[m])]
         IN  [rankings |->
                 [by_reliability |-> by_inner("reliability", "mean", TRUE),
                  by_content_quality |-> by_inner("content_quality", "mean", TRUE),
                  by_combined_score |-> by_field("combined_score", Rat(0), TRUE),
                  by_overall_score |-> by_field("overall_score", Rat(0), TRUE),
                  by_universal_score |-> by_field("universal_weighted_score", Rat(0), TRUE),
                  by_cost_effectiveness |-> by_field("cost_per_quality_point", RatInf, FALSE),
                  by_reliability_cost |-> by_field("cost_per_reliability_point", RatInf, FALSE),
                  by_value |-> SortedByKey(models, value_scores, TRUE)],
              value_scores |-> value_scores,
              model_count |-> Len(models)]

\* ------------------------------------------------------------------------
\* Specification: comparative metrics over bounded model metrics
\* ------------------------------------------------------------------------
MaxCompared == 2

BenchmarkTasks == <<"summary", "quiz", "flashcards">>

\* aggregate_model_metrics 214-275 for results that all score the same, the
\* fields that calculate_comparative_metrics reads
ModelProfile(score, total_cost, test_count) ==
    [reliability |-> [mean |-> Rat(score)],
     content_quality |-> [mean |-> Rat(score)],
     cost |-> [total |-> Rat(total_cost)],
     test_count |-> test_count,
     cost_per_quality_point |->
         IF total_cost > 0 THEN Norm(<<total_cost, score * test_count>>) ELSE Rat(0),
     cost_per_reliability_point |->
         IF total_cost > 0 THEN Norm(<<total_cost, score * test_count>>) ELSE Rat(0),
     combined_score |-> Rat(score),
     overall_score |-> Rat(score),
     universal_weighted_score |-> Rat(score)]

\* the number of valid results of a model per task: at least one in all
TaskCounts ==
    {c \in [Range(BenchmarkTasks) -> 0..1] : \E t \in Range(BenchmarkTasks) : c[t] > 0}

TotalCount(c) == c["summary"] + c["quiz"] + c["flashcards"]

ComparativeArgs ==
    {[all_model_metrics |->
          [i \in 1..MaxCompared |->
              <<i, ModelProfile(score[i], total_cost[i], TotalCount(counts[i]))>>],
      test_count_by_task |-> counts]
        : score \in [1..MaxCompared -> {50, 99}],
          total_cost \in [1..MaxCompared -> {0, 2}],
          counts \in [1..MaxCompared -> TaskCounts]}

InitComparative ==
    /\ EvalInit({}) /\ RunIdle
    /\ gpc = "off" /\ attempt = 0 /\ last_error = None /\ responses = <<>>
    /\ greturn = NoResult
    /\ fargs \in ComparativeArgs
    /\ fret = NoResult

ApplyCalculateComparativeMetrics ==
    /\ fret = NoResult
    /\ fret' = calculate_comparative_metrics(fargs.all_model_metrics)
    /\ UNCHANGED <<gpc, attempt, last_error, responses, greturn, fargs>>
    /\ UNCHANGED <<evalVars, runVars>>

NextComparative == ApplyCalculateComparativeMetrics

SpecComparative == InitComparative /\ [][NextComparative]_vars

\* the model ran only a subset of the tasks
IsPartial(m) == \E t \in Range(BenchmarkTasks) : fargs.test_count_by_task[m][t] = 0

\* C21: a model with zero samples for at least one task does not appear in
\* the overall cross-task ranking by_overall_score, whatever its scores.
C21_PartialExcluded ==
    fret # NoResult =>
        \A m \in 1..MaxCompared :
            IsPartial(m) => m \notin Range(fret.rankings.by_overall_score)

\* ------------------------------------------------------------------------
\* The aggregates of a consensus evaluation
\* ------------------------------------------------------------------------
\* the statistical median of a non-empty series of integers, a fraction: the
\* middle value, or the mean of the two middle values
StatisticalMedian(values) ==
    LET s == Sorted(values)
        n == Len(values)
    IN  IF n % 2 = 1 THEN Rat(s[(n \div 2) + 1])
        ELSE <<s[n \div 2] + s[(n \div 2) + 1], 2>>

\* C22: for every dimension reported as a number by at least one successful
\* judge, the aggregate has count equal to the number of successful judges
\* that reported it, min <= median <= max, and median equal to the statistical
\* median of those scores (the mean of the two middle values when count is
\* even); judges reporting different dimension sets are tolerated.
C22_AggregateMedian ==
    \A e \in Evals : (Gathered(e) /\ SucceededJudges(e) # <<>>) =>
        /\ "aggregated_scores" \in DOMAIN eresult[e]
        /\ \A key \in ScoreKeys :
              Reported(e, key) # <<>> =>
                  /\ key \in DOMAIN eresult[e].aggregated_scores
                  /\ LET a == eresult[e].aggregated_scores[key]
                         vals == Reported(e, key)
                     IN  /\ a.count = Len(vals)
                         /\ a.min <= a.median /\ a.median <= a.max
                         /\ RatEq(Rat(a.median), StatisticalMedian(vals))

\* two adjacent rows of a ranking are marked as a tie with each other
TiedWithNext(i) ==
    TieByComparison(fargs.comparisons, fret.rankings[i].model_id,
                    fret.rankings[i + 1].model_id)

\* C23: in the output of generate_ranking_with_significance, any two adjacent
\* entries that are marked as a statistical tie with each other carry the
\* same display_rank string.
C23_SharedDisplayRank ==
    (fret # NoResult /\ "rankings" \in DOMAIN fret) =>
        \A i \in 1..(Len(fret.rankings) - 1) :
            (TiedWithNext(i) /\ fret.rankings[i].is_tie /\ fret.rankings[i + 1].is_tie)
                => fret.rankings[i].display_rank = fret.rankings[i + 1].display_rank

\* ------------------------------------------------------------------------
\* scripts/analyze_significance.py: confidence intervals
\* ------------------------------------------------------------------------
\* compute_ci 127-158; std_dev and stderr are kept by their squares
compute_ci(values, confidence) ==
    IF values = <<>>
    THEN [mean |-> Rat(0), std_dev_sq |-> Rat(0), n |-> 0,
          ci |-> [lower |-> Zero, upper |-> Zero, level |-> confidence],
          stderr_sq |-> Rat(0)]
    ELSE LET n == Len(values)
             mean == StatMean(values)
             variance == IF n = 1 THEN Rat(0) ELSE StatVariance(values)
             stderr_sq == RatDiv(variance, Rat(n))
             t_crit == t_critical(confidence, n - 1)
             margin_sq == RatMul(RatMul(t_crit, t_crit), stderr_sq)
         IN  [mean |-> mean, std_dev_sq |-> variance, n |-> n,
              ci |-> [lower |-> Real(mean, -1, margin_sq),
                      upper |-> Real(mean, 1, margin_sq),
                      level |-> confidence],
              stderr_sq |-> stderr_sq]

\* ------------------------------------------------------------------------
\* Specification: confidence intervals of bounded samples
\* ------------------------------------------------------------------------
MaxSampleSize == 33

\* samples of every size up to MaxSampleSize: two scores in alternation
AlternatingSamples ==
    {[i \in 1..n |-> IF i % 2 = 1 THEN p[1] ELSE p[2]] :
        n \in 0..MaxSampleSize, p \in CaseScores \X CaseScores}

InitInterval ==
    /\ EvalInit({}) /\ RunIdle
    /\ gpc = "off" /\ attempt = 0 /\ last_error = None /\ responses = <<>>
    /\ greturn = NoResult
    /\ fargs \in [values : AlternatingSamples]
    /\ fret = NoResult

ApplyComputeCi ==
    /\ fret = NoResult
    /\ fret' = compute_ci(fargs.values, DefaultConfidence)
    /\ UNCHANGED <<gpc, attempt, last_error, responses, greturn, fargs>>
    /\ UNCHANGED <<evalVars, runVars>>

NextInterval == ApplyComputeCi

SpecInterval == InitInterval /\ [][NextInterval]_vars

\* the interval returned is mean -/+ multiplier * stderr
UsesMultiplier(multiplier) ==
    LET margin_sq == RatMul(RatMul(multiplier, multiplier), fret.stderr_sq)
    IN  /\ fret.ci.lower = Real(fret.mean, -1, margin_sq)
        /\ fret.ci.upper = Real(fret.mean, 1, margin_sq)
        /\ fret.stderr_sq = RatDiv(fret.std_dev_sq, Rat(fret.n))

\* C24 as stated: for 95% confidence the multiplier compute_ci uses for a
\* sample of n values is 2.3 when n <= 11, 2.1 when 11 < n <= 21, 2.0 when
\* 21 < n <= 30, and 1.96 for every n > 30.
C24_MultiplierByThirty ==
    (fret # NoResult /\ fret.n >= 1) =>
        UsesMultiplier(IF fret.n <= 11 THEN <<23, 10>>
                       ELSE IF fret.n <= 21 THEN <<21, 10>>
                       ELSE IF fret.n <= 30 THEN Rat(2)
                       ELSE <<49, 25>>)

\* C24, amended: the multiplier is 2.3 when n <= 11, 2.1 when 11 < n <= 21,
\* 2.0 when 21 < n <= 31, and 1.96 for every n > 31: the table is indexed by
\* the n - 1 degrees of freedom, and the normal approximation starts above
\* 30 of them.
C24_MultiplierByDegrees ==
    (fret # NoResult /\ fret.n >= 1) =>
        /\ fret.n = Len(fargs.values)
        /\ UsesMultiplier(IF fret.n <= 11 THEN <<23, 10>>
                          ELSE IF fret.n <= 21 THEN <<21, 10>>
                          ELSE IF fret.n <= 31 THEN Rat(2)
                          ELSE <<49, 25>>)

\* a sample of 31 values that vary: the interval is 2.0 standard errors wide
C24_Witness ==
    /\ fret # NoResult
    /\ fret.n = 31
    /\ fret.std_dev_sq[1] > 0
    /\ UsesMultiplier(Rat(2))
    /\ ~UsesMultiplier(<<49, 25>>)

\* ------------------------------------------------------------------------
\* evaluators/metrics.py: breakdowns of one model's results
\* ------------------------------------------------------------------------
\* calculate_model_metrics_by_dimension 514-544
calculate_model_metrics_by_dimension(all_results, dimension_key, config) ==
    LET kept == SelectSeq(all_results, LAMBDA r : ~Truthy(Get(r, "error", None)))
        dimension_groups ==
            [dimension_value \in {Get(kept[i], dimension_key, "unknown") : i \in DOMAIN kept} |->
                SelectSeq(kept, LAMBDA r : Get(r, dimension_key, "unknown") = dimension_value)]
    IN  [dimension_value \in {v \in DOMAIN dimension_groups : dimension_groups[v] # <<>>} |->
            AggregateModelMetrics(dimension_groups[dimension_value], config)]

\* calculate_comprehensive_model_metrics 578-590: for task in ["summary",
\* "quiz", "flashcards"]
ByTaskAnd(valid_results, dimension_key, config) ==
    LET task_results(task) ==
            SelectSeq(valid_results, LAMBDA r : Get(r, "task", None) = task)
    IN  [task \in {t \in {"summary", "quiz", "flashcards"} : task_results(t) # <<>>} |->
            calculate_model_metrics_by_dimension(task_results(task), dimension_key, config)]

\* calculate_comprehensive_model_metrics 592-598
ByTopicAndFormat(valid_results, config) ==
    LET topics == {Get(valid_results[i], "test_case_topic", "unknown") :
                      i \in DOMAIN valid_results}
        topic_results(topic) ==
            SelectSeq(valid_results, LAMBDA r : Get(r, "test_case_topic", None) = topic)
    IN  [topic \in {t \in topics : topic_results(t) # <<>>} |->
            calculate_model_metrics_by_dimension(topic_results(topic),
                                                 "test_case_format", config)]

\* calculate_comprehensive_model_metrics 600-618
SummaryStats(valid_results) ==
    LET count(key, value) ==
            Len(SelectSeq(valid_results, LAMBDA r : Get(r, key, None) = value))
        values(key, default) ==
            {Get(valid_results[i], key, default) : i \in DOMAIN valid_results}
    IN  [total_tests |-> Len(valid_results),
         tasks_tested |-> values("task", None),
         topics_tested |-> values("test_case_topic", None),
         formats_tested |-> values("test_case_format", None),
         test_count_by_task |->
             [task \in {"summary", "quiz", "flashcards"} |-> count("task", task)],
         test_count_by_topic |->
             [topic \in values("test_case_topic", "unknown") |->
                 count("test_case_topic", topic)],
         test_count_by_format |->
             [fmt \in values("test_case_format", "unknown") |->
                 count("test_case_format", fmt)]]

\* calculate_comprehensive_model_metrics 547-633
calculate_comprehensive_model_metrics(all_results, config) ==
    With(LAMBDA valid_results :
            IF valid_results = <<>> THEN EmptyDict
            ELSE [overall |-> AggregateModelMetrics(valid_results, config),
                  by_task |->
                      calculate_model_metrics_by_dimension(valid_results, "task", config),
                  by_topic |->
                      calculate_model_metrics_by_dimension(valid_results,
                                                           "test_case_topic", config),
                  by_format |->
                      calculate_model_metrics_by_dimension(valid_results,
                                                           "test_case_format", config),
                  by_task_and_topic |->
                      ByTaskAnd(valid_results, "test_case_topic", config),
                  by_task_and_format |->
                      ByTaskAnd(valid_results, "test_case_format", config),
                  by_topic_and_format |-> ByTopicAndFormat(valid_results, config),
                  summary_stats |-> SummaryStats(valid_results)],
         ValidResults(all_results))

\* ------------------------------------------------------------------------
\* Specification: the breakdowns of bounded result lists
\* ------------------------------------------------------------------------
MaxBreakdown == 2

\* a record that run_single_benchmark 254-262 returns for a failed
\* generation
FailedResult(task) ==
    [model_id |-> "m1", task |-> task, test_case_id |-> "t1", error |-> "timeout",
     cost |-> 0, latency_ms |-> ResultLatency]

\* a stored result of a task; one written before the topic and format of
\* the test case were recorded carries neither key
ScoredResult(task, topic, format, reliability, quality) ==
    [model_id |-> "m1", task |-> task, test_case_id |-> "t1",
     reliability_score |-> reliability,
     content_quality_score |-> quality,
     judge_evaluation |-> [aggregated_scores |-> Agg({"quality"}, quality)],
     cost |-> ResultCost, latency_ms |-> ResultLatency]
    @@ (IF topic = "absent" THEN <<>>
        ELSE [test_case_topic |-> topic, test_case_format |-> format])

BreakdownResults ==
    {FailedResult(task) : task \in {"summary", "quiz"}}
    \cup {ScoredResult(task, topic, format, level[1], level[2]) :
            task \in {"summary", "quiz"},
            topic \in {"physics", "absent"},
            format \in {"academic", "ocr_like"},
            level \in {<<1, 5>>, <<100, 100>>}}

InitBreakdown ==
    /\ EvalInit({}) /\ RunIdle
    /\ gpc = "off" /\ attempt = 0 /\ last_error = None /\ responses = <<>>
    /\ greturn = NoResult
    /\ fargs \in [all_results : SeqsUpTo(BreakdownResults, MaxBreakdown)]
    /\ fret = NoResult

ApplyComprehensiveMetrics ==
    /\ fret = NoResult
    /\ fret' = calculate_comprehensive_model_metrics(fargs.all_results, NoConfig)
    /\ UNCHANGED <<gpc, attempt, last_error, responses, greturn, fargs>>
    /\ UNCHANGED <<evalVars, runVars>>

NextBreakdown == ApplyComprehensiveMetrics

SpecBreakdown == InitBreakdown /\ [][NextBreakdown]_vars

\* the sum of f over the set S
RECURSIVE SumOver(_, _)
SumOver(S, f) ==
    IF S = {} THEN 0
    ELSE With(LAMBDA x : f[x] + SumOver(S \ {x}, f), CHOOSE x \in S : TRUE)

\* the test_count values of a breakdown's groups, summed
GroupTotal(breakdown) ==
    SumOver(DOMAIN breakdown, [g \in DOMAIN breakdown |-> breakdown[g].test_count])
NestedTotal(breakdown) ==
    SumOver(DOMAIN breakdown, [g \in DOMAIN breakdown |-> GroupTotal(breakdown[g])])

NoEmptyGroup(breakdown) == \A g \in DOMAIN breakdown : breakdown[g].test_count > 0
NoEmptyNested(breakdown) ==
    \A g \in DOMAIN breakdown :
        breakdown[g] # <<>> /\ NoEmptyGroup(breakdown[g])

\* comprehensive metrics were returned for some valid result
Comprehensive == fret # NoResult /\ "summary_stats" \in DOMAIN fret

\* C25: each breakdown of calculate_comprehensive_model_metrics partitions
\* the model's non-error results: the test_count values of its groups sum to
\* summary_stats.total_tests, and no group with zero results is present.
C25_BreakdownsPartition ==
    Comprehensive =>
        /\ fret.summary_stats.total_tests = Len(ValidResults(fargs.all_results))
        /\ \A b \in {"by_task", "by_topic", "by_format"} :
              /\ GroupTotal(fret[b]) = fret.summary_stats.total_tests
              /\ NoEmptyGroup(fret[b])
        /\ \A b \in {"by_task_and_topic", "by_task_and_format", "by_topic_and_format"} :
              /\ NestedTotal(fret[b]) = fret.summary_stats.total_tests
              /\ NoEmptyNested(fret[b])

\* the sum over the groups of a breakdown of reliability.mean * test_count
RECURSIVE WeightedReliability(_, _)
WeightedReliability(breakdown, groups) ==
    IF groups = {} THEN Rat(0)
    ELSE With(LAMBDA g :
                RatPlus(RatMul(breakdown[g].reliability.mean, Rat(breakdown[g].test_count)),
                        WeightedReliability(breakdown, groups \ {g})),
              CHOOSE g \in groups : TRUE)

\* C30: the overall aggregate and the by_task breakdown of one model are on
\* the same scale: for non-error results that all carry a reliability_score,
\* overall reliability.mean * total_tests equals the sum over the by_task
\* groups of group reliability.mean * group test_count.
C30_SameScale ==
    Comprehensive =>
        RatEq(RatMul(fret.overall.reliability.mean, Rat(fret.summary_stats.total_tests)),
              WeightedReliability(fret.by_task, DOMAIN fret.by_task))

\* ------------------------------------------------------------------------
\* What a save leaves of the corpus that was on disk
\* ------------------------------------------------------------------------
\* The run produced a record with the identity key of r.
ProducedByRun(r) == \E j \in DOMAIN results : Identity(results[j]) = Identity(r)

\* The step that puts the merged results in the place of the corpus.
CorpusReplaced == rpc = "replace" /\ rpc' = "metrics"

\* C26: when a run persists its results, every record that was in the corpus
\* file before and whose identity key (model_id, task, test_case_id) the run
\* did not produce is still in the corpus, unchanged, also when loading the
\* existing corpus failed on some or all attempts.
C26_OtherRecordsKept ==
    [][CorpusReplaced =>
          \A i \in DOMAIN corpus.data :
              ~ProducedByRun(corpus.data[i]) =>
                  \E k \in DOMAIN corpus'.data : corpus'.data[k] = corpus.data[i]]_vars

\* ------------------------------------------------------------------------
\* Two runs that save into the same corpus at the same time
\* ------------------------------------------------------------------------
\* The second process runs the same code as the first (run_benchmark
\* 526-590) on its own results; results_path, its temporary file
\* results_path.with_suffix('.json.tmp') and the metrics file are the same
\* paths for both. Each read and each write of a file is one step.

\* run_benchmark 526-539 in the second process
OtherLoadExistingResults ==
    /\ otherRun.pc = "load"
    /\ \/ otherRun' = [otherRun EXCEPT
                          !.existing_results = IF corpus.exists THEN corpus.data ELSE <<>>,
                          !.pc = "merge"]
       \/ /\ corpus.exists
          /\ otherRun' = [otherRun EXCEPT
                             !.load_attempt = @ + 1,
                             !.pc = IF otherRun.load_attempt < max_retries - 1
                                      THEN "load" ELSE "merge"]
    /\ UNCHANGED <<rpc, corpus, tempFile, existing_results, merged_results, metrics,
                   load_attempt>>
    /\ UNCHANGED taskVars
    /\ UNCHANGED <<evalVars, callVars>>

\* run_benchmark 541-554 in the second process
OtherWriteTemp ==
    /\ otherRun.pc = "merge"
    /\ tempFile' = File(Merge(otherRun.existing_results, otherRun.results))
    /\ otherRun' = [otherRun EXCEPT
                       !.merged_results = Merge(otherRun.existing_results, otherRun.results),
                       !.pc = "replace"]
    /\ UNCHANGED <<rpc, corpus, existing_results, merged_results, metrics, load_attempt>>
    /\ UNCHANGED taskVars
    /\ UNCHANGED <<evalVars, callVars>>

\* run_benchmark 555-562 in the second process
OtherReplaceTemp ==
    /\ otherRun.pc = "replace"
    /\ IF tempFile.exists
         THEN /\ corpus' = tempFile
              /\ tempFile' = Missing
              /\ otherRun' = [otherRun EXCEPT !.pc = "metrics"]
         ELSE /\ otherRun' = [otherRun EXCEPT !.pc = "raised"]
              /\ UNCHANGED <<corpus, tempFile>>
    /\ UNCHANGED <<rpc, existing_results, merged_results, metrics, load_attempt>>
    /\ UNCHANGED taskVars
    /\ UNCHANGED <<evalVars, callVars>>

\* run_benchmark 564-590 in the second process
OtherSaveMetrics ==
    /\ otherRun.pc = "metrics"
    /\ metrics' = [model_metrics |-> ModelMetricsOverall(otherRun.merged_results),
                   model_metrics_comprehensive |->
                       ModelMetricsComprehensive(otherRun.merged_results)]
    /\ otherRun' = [otherRun EXCEPT !.pc = "done"]
    /\ UNCHANGED <<rpc, corpus, tempFile, existing_results, merged_results, load_attempt>>
    /\ UNCHANGED taskVars
    /\ UNCHANGED <<evalVars, callVars>>

\* The results of a run over one model: one record of the model.
RunResults(model_id) ==
    { <<r>> : r \in {x \in CorpusRecords : Get(x, "model_id", None) = model_id} }

\* No corpus yet, or the corpus of one earlier result.
SmallCorpora == {c \in Corpora : Len(c.data) <= 1}

\* The two runs benchmark different models, so their identity keys are
\* disjoint; both have collected their results and are about to save.
InitTwoRuns ==
    /\ EvalInit({})
    /\ CallIdle
    /\ use_cache = FALSE
    /\ resultCache = EmptyDict
    /\ semaphore = ConcurrencyLimit
    /\ tpc = [t \in Tasks |-> "off"]
    /\ toutput = [t \in Tasks |-> NoResult]
    /\ tresult = [t \in Tasks |-> NoResult]
    /\ doneQueue = <<>>
    /\ results \in RunResults("m1")
    /\ rpc = "load"
    /\ corpus \in SmallCorpora
    /\ tempFile = Missing
    /\ existing_results = <<>>
    /\ merged_results = <<>>
    /\ metrics = NoMetrics
    /\ finishOrder = <<>>
    /\ collected = <<>>
    /\ failed = {}
    /\ load_attempt = 0
    /\ otherRun \in {[NoRun EXCEPT !.pc = "load", !.results = rs] : rs \in RunResults("m1:free")}
    /\ forced = <<>>
    /\ last_generated = EmptyDict

NextTwoRuns ==
    \/ LoadExistingResults
    \/ WriteTemp
    \/ ReplaceTemp
    \/ SaveMetrics
    \/ OtherLoadExistingResults
    \/ OtherWriteTemp
    \/ OtherReplaceTemp
    \/ OtherSaveMetrics

SpecTwoRuns == InitTwoRuns /\ [][NextTwoRuns]_vars

\* Both processes have left run_benchmark.
BothRunsEnded == rpc \in {"done", "raised"} /\ otherRun.pc \in {"done", "raised"}

\* The corpus holds every record of the list.
InCorpus(rs) == \A i \in DOMAIN rs : \E k \in DOMAIN corpus.data : corpus.data[k] = rs[i]

\* C27: when two runs over disjoint identity keys load, merge and write the
\* corpus file concurrently, the final corpus contains the records of both
\* runs, whatever the interleaving.
C27_NoLostUpdate ==
    BothRunsEnded => InCorpus(results) /\ InCorpus(otherRun.results)

\* ------------------------------------------------------------------------
\* A sequence of runs, with and without --force, over one cache and corpus
\* ------------------------------------------------------------------------
MaxRuns == 2

\* main 642-656 and run_benchmark 447-470: the next invocation of the
\* program. use_cache = not args.force, every task receives
\* use_cache and not force; the tasks, the results list and the retry loop
\* start anew, the result cache, the corpus and the metrics file are what the
\* earlier runs left on disk.
StartRun(force) ==
    /\ rpc = "done"
    /\ Len(forced) < MaxRuns
    /\ forced' = Append(forced, force)
    /\ use_cache' = ((~force) /\ ~force)
    /\ semaphore' = ConcurrencyLimit
    /\ tpc' = [t \in Tasks |-> "pending"]
    /\ toutput' = [t \in Tasks |-> NoResult]
    /\ tresult' = [t \in Tasks |-> NoResult]
    /\ doneQueue' = <<>>
    /\ results' = <<>>
    /\ rpc' = "running"
    /\ existing_results' = <<>>
    /\ merged_results' = <<>>
    /\ load_attempt' = 0
    /\ finishOrder' = <<>>
    /\ collected' = <<>>
    /\ failed' = {}
    /\ UNCHANGED <<resultCache, corpus, tempFile, metrics, otherRun, last_generated>>
    /\ UNCHANGED <<evalVars, callVars>>

\* What an earlier run without --force over the first model left on disk:
\* its result in the result cache and in the corpus.
EarlierCache == [k \in {GetCacheKey(ModelOf(1), SummaryTask, TestCase)} |-> CachedEarlier]

\* The first run starts with an empty cache directory and no corpus, or
\* after that earlier run.
InitRuns ==
    /\ EvalInit({})
    /\ CallIdle
    /\ use_cache \in BOOLEAN
    /\ forced = <<~use_cache>>
    /\ resultCache \in {EmptyDict, EarlierCache}
    /\ semaphore = ConcurrencyLimit
    /\ tpc = [t \in Tasks |-> "pending"]
    /\ toutput = [t \in Tasks |-> NoResult]
    /\ tresult = [t \in Tasks |-> NoResult]
    /\ doneQueue = <<>>
    /\ results = <<>>
    /\ rpc = "running"
    /\ corpus = IF resultCache = EmptyDict THEN Missing ELSE File(<<CachedEarlier>>)
    /\ tempFile = Missing
    /\ existing_results = <<>>
    /\ merged_results = <<>>
    /\ metrics = NoMetrics
    /\ finishOrder = <<>>
    /\ collected = <<>>
    /\ failed = {}
    /\ load_attempt = 0
    /\ otherRun = NoRun
    /\ last_generated = resultCache

NextRuns ==
    \/ \E t \in Tasks : Acquire(t)
    \/ \E t \in Tasks : Generate(t)
    \/ \E t \in Tasks : Evaluate(t)
    \/ Collect
    \/ LoadExistingResults
    \/ WriteTemp
    \/ ReplaceTemp
    \/ SaveMetrics
    \/ \E force \in BOOLEAN : StartRun(force)

SpecRuns == InitRuns /\ [][NextRuns]_vars

\* The record is the result of a generation, not an error record.
IsGenerationResult(r) == ~Truthy(Get(r, "error", None))

\* C28: after any sequence of runs, with and without --force, the corpus
\* record of an identity key that holds a generation result is the result of
\* the most recent successful generation for that key: a later cached run
\* does not put an older result from the result cache in its place.
C28_MostRecentGeneration ==
    Saved =>
        \A i \in DOMAIN corpus.data :
            LET r == corpus.data[i]
                cache_key == GetCacheKey(Get(r, "model_id", None), SummaryTask, TestCase)
            IN (IsGenerationResult(r) /\ cache_key \in DOMAIN last_generated)
                   => r = last_generated[cache_key]

\* ------------------------------------------------------------------------
\* get_output_hash, applied to two evaluations
\* ------------------------------------------------------------------------
MaxHashedLen == 2

\* The characters of the texts: a letter, whitespace, and the ":" that
\* get_output_hash puts between the parts of the hashed string.
HashedChars == {"a", " ", ":"}

\* Texts far below HashThreshold.
HashedTexts == SeqsUpTo(HashedChars, MaxHashedLen)

\* The arguments of one judge evaluation.
JudgeEvaluations ==
    [task_type : {<<"summary">>, <<"quiz">>}, output_text : HashedTexts,
     source_text : HashedTexts]

InitHash ==
    /\ EvalInit({})
    /\ RunIdle
    /\ gpc = "off"
    /\ attempt = 0
    /\ last_error = None
    /\ responses = <<>>
    /\ greturn = NoResult
    /\ fargs \in [first : JudgeEvaluations, second : JudgeEvaluations]
    /\ fret = NoResult

ApplyGetOutputHash ==
    /\ fret = NoResult
    /\ fret' = [e \in {"first", "second"} |->
                   GetOutputHash(fargs[e].output_text, fargs[e].task_type,
                                 fargs[e].source_text)]
    /\ UNCHANGED <<gpc, attempt, last_error, responses, greturn, fargs>>
    /\ UNCHANGED <<evalVars, runVars>>

NextHash == ApplyGetOutputHash

SpecHash == InitHash /\ [][NextHash]_vars

\* The triple the cache key is meant to stand for.
NormalizedTriple(e) ==
    <<e.task_type, NormalizeTextForCache(e.output_text),
      NormalizeTextForCache(e.source_text)>>

\* C29: two judge evaluations get the same judge-cache key only if they have
\* the same task type, the same whitespace-normalized output text and the
\* same whitespace-normalized source text (texts below the digest threshold,
\* SHA-256 taken as injective).
C29_KeyInjective ==
    (fret # NoResult /\ fret.first = fret.second)
        => NormalizedTriple(fargs.first) = NormalizedTriple(fargs.second)

====
